---- MODULE Spec2Model ----
(***************************************************************************)
(* A state-machine model of the side-scrolling platformer in src/game.js:  *)
(* the input handler, the Player, the Level and the GameEngine's           *)
(* fixed-step frame loop.                                                  *)
(*                                                                         *)
(* Numbers.  The code computes in IEEE doubles; the model computes in      *)
(* integers.  Lengths and per-tick velocities are counted in 1/PX of a     *)
(* pixel and times in 1/TU of a second, so that every constant of the code *)
(* that the simulation adds or compares is an integer.  Every tick runs    *)
(* with dt = GAME.fixedDt, so the code's frameScale = dt * 60 is 1.        *)
(***************************************************************************)
EXTENDS Integers, Sequences, FiniteSets, TLC

VARIABLES
    eng,      \* GameEngine fields: state, settingsOpen, gameOver, levelIndex, acc, time
    player,   \* the Player object
    level,    \* the Level object the engine currently holds
    input,    \* the InputHandler object
    twin,     \* a second engine run (used only by the refresh-rate comparison)
    last      \* label of the operation that produced this state

vars == <<eng, player, level, input, twin, last>>

(***************************************************************************)
(* Units and core/math                                                     *)
(***************************************************************************)
PX == 800
TU == 600

fixedDt == TU \div 60
maxDt == TU \div 20

Px(n) == n * PX

Min(a, b) == IF a < b THEN a ELSE b
Max(a, b) == IF a > b THEN a ELSE b
Abs(a) == IF a < 0 THEN -a ELSE a

clamp(v, lo, hi) == Max(lo, Min(hi, v))

sign(v) == IF v < 0 THEN -1 ELSE IF v > 0 THEN 1 ELSE 0

rectFromCenterBottom(centerX, bottomY, w, h) ==
    [x |-> centerX - w \div 2, y |-> bottomY - h, w |-> w, h |-> h]

aabbIntersects(a, b) ==
    /\ a.x < b.x + b.w
    /\ a.x + a.w > b.x
    /\ a.y < b.y + b.h
    /\ a.y + a.h > b.y

\* Timer countdown "if (t > 0) t = Math.max(0, t - dt)".
CountDown(t, dt) == IF t > 0 THEN Max(0, t - dt) ELSE t

(***************************************************************************)
(* core/constants                                                          *)
(***************************************************************************)
gravity == 175          \* 0.21875 px per tick
terminalVel == Px(16)
topSpeed == Px(6)
jumpVel == 5200         \* 6.5 px per tick
jumpBufferSeconds == 5 * fixedDt
coyoteSeconds == 6 * fixedDt

(***************************************************************************)
(* game/player                                                             *)
(***************************************************************************)
shieldMaxHits == 5
StartLives == 5

NewPlayer(x, y) ==
    [x |-> x, y |-> y, spawnX |-> x, spawnY |-> y, vx |-> 0, vy |-> 0,
     grounded |-> FALSE, coyoteUntil |-> 0, rolling |-> FALSE,
     rings |-> 0, score |-> 0, lives |-> StartLives, invuln |-> 0,
     jumpsRemaining |-> 2, hasGunPower |-> FALSE, gunCooldown |-> 0,
     powerFlash |-> 0, shootFlash |-> 0, comboCount |-> 0, comboTimer |-> 0,
     hasShieldPower |-> FALSE, shieldActive |-> FALSE, shieldHits |-> 0,
     shieldShatter |-> 0, springLaunchTimer |-> 0, facing |-> 1,
     isBig |-> FALSE, growthTransformTimer |-> 0, magnetTimer |-> 0,
     justLaunchedSpring |-> FALSE]

respawn(p, x, y) ==
    [p EXCEPT !.x = x, !.y = y, !.vx = 0, !.vy = 0, !.grounded = FALSE,
              !.coyoteUntil = 0, !.rolling = FALSE, !.invuln = 0,
              !.jumpsRemaining = 2, !.hasGunPower = FALSE, !.gunCooldown = 0,
              !.powerFlash = 0, !.shootFlash = 0, !.comboCount = 0,
              !.comboTimer = 0, !.hasShieldPower = FALSE,
              !.shieldActive = FALSE, !.shieldHits = 0, !.shieldShatter = 0,
              !.springLaunchTimer = 0, !.isBig = FALSE,
              !.growthTransformTimer = 0, !.magnetTimer = 0]

setSpawn(p, x, y) == [p EXCEPT !.spawnX = x, !.spawnY = y]

\* Player.takeHit with the shield test dropped: a hit always reaches the
\* ring / growth / life path.
takeHit_noShield(p, knockDir) ==
    IF p.invuln > 0 THEN p
    ELSE IF p.rings > 0 THEN
        [p EXCEPT !.rings = 0, !.invuln = TU, !.vx = -knockDir * 2000,
                  !.vy = -3600, !.grounded = FALSE]
    ELSE IF p.isBig THEN
        [p EXCEPT !.isBig = FALSE, !.invuln = (TU * 12) \div 10,
                  !.vx = -knockDir * Px(3), !.vy = -Px(5), !.grounded = FALSE]
    ELSE respawn([p EXCEPT !.lives = p.lives - 1, !.invuln = TU],
                 p.spawnX, p.spawnY)

\* Player.takeHit whose ring branch also costs a life.
takeHit_ringsCostLife(p, knockDir) ==
    IF p.invuln > 0 THEN p
    ELSE IF p.shieldActive /\ p.hasShieldPower THEN
        LET hits == p.shieldHits + 1 IN
        IF hits >= shieldMaxHits
        THEN [p EXCEPT !.shieldHits = hits, !.shieldActive = FALSE,
                       !.shieldShatter = TU \div 2]
        ELSE [p EXCEPT !.shieldHits = hits]
    ELSE IF p.rings > 0 THEN
        [p EXCEPT !.rings = 0, !.lives = p.lives - 1, !.invuln = TU,
                  !.vx = -knockDir * 2000, !.vy = -3600, !.grounded = FALSE]
    ELSE IF p.isBig THEN
        [p EXCEPT !.isBig = FALSE, !.invuln = (TU * 12) \div 10,
                  !.vx = -knockDir * Px(3), !.vy = -Px(5), !.grounded = FALSE]
    ELSE respawn([p EXCEPT !.lives = p.lives - 1, !.invuln = TU],
                 p.spawnX, p.spawnY)

\* Player.takeHit whose last branch forgets the respawn (position and
\* power state are kept when a life is lost).
takeHit_noRespawn(p, knockDir) ==
    IF p.invuln > 0 THEN p
    ELSE IF p.shieldActive /\ p.hasShieldPower THEN
        LET hits == p.shieldHits + 1 IN
        IF hits >= shieldMaxHits
        THEN [p EXCEPT !.shieldHits = hits, !.shieldActive = FALSE,
                       !.shieldShatter = TU \div 2]
        ELSE [p EXCEPT !.shieldHits = hits]
    ELSE IF p.rings > 0 THEN
        [p EXCEPT !.rings = 0, !.invuln = TU, !.vx = -knockDir * 2000,
                  !.vy = -3600, !.grounded = FALSE]
    ELSE IF p.isBig THEN
        [p EXCEPT !.isBig = FALSE, !.invuln = (TU * 12) \div 10,
                  !.vx = -knockDir * Px(3), !.vy = -Px(5), !.grounded = FALSE]
    ELSE [p EXCEPT !.lives = p.lives - 1, !.invuln = TU]

\* Player.takeHit without its first line: the invulnerability timer is not
\* consulted.
takeHit_noInvulnGuard(p, knockDir) ==
    IF p.shieldActive /\ p.hasShieldPower THEN
        LET hits == p.shieldHits + 1 IN
        IF hits >= shieldMaxHits
        THEN [p EXCEPT !.shieldHits = hits, !.shieldActive = FALSE,
                       !.shieldShatter = TU \div 2]
        ELSE [p EXCEPT !.shieldHits = hits]
    ELSE IF p.rings > 0 THEN
        [p EXCEPT !.rings = 0, !.invuln = TU, !.vx = -knockDir * 2000,
                  !.vy = -3600, !.grounded = FALSE]
    ELSE IF p.isBig THEN
        [p EXCEPT !.isBig = FALSE, !.invuln = (TU * 12) \div 10,
                  !.vx = -knockDir * Px(3), !.vy = -Px(5), !.grounded = FALSE]
    ELSE respawn([p EXCEPT !.lives = p.lives - 1, !.invuln = TU],
                 p.spawnX, p.spawnY)

\* takeHit whose ring-loss and shrink knockbacks leave grounded as it is.
takeHit_staysGrounded(p, knockDir) ==
    IF p.invuln > 0 THEN p
    ELSE IF p.shieldActive /\ p.hasShieldPower THEN
        LET hits == p.shieldHits + 1 IN
        IF hits >= shieldMaxHits
        THEN [p EXCEPT !.shieldHits = hits, !.shieldActive = FALSE,
                       !.shieldShatter = TU \div 2]
        ELSE [p EXCEPT !.shieldHits = hits]
    ELSE IF p.rings > 0 THEN
        [p EXCEPT !.rings = 0, !.invuln = TU, !.vx = -knockDir * 2000, !.vy = -3600]
    ELSE IF p.isBig THEN
        [p EXCEPT !.isBig = FALSE, !.invuln = (TU * 12) \div 10,
                  !.vx = -knockDir * Px(3), !.vy = -Px(5)]
    ELSE
        respawn([p EXCEPT !.lives = p.lives - 1, !.invuln = TU],
                p.spawnX, p.spawnY)

takeHit(p, knockDir) ==
    IF p.invuln > 0 THEN p
    ELSE IF p.shieldActive /\ p.hasShieldPower THEN
        \* Shield absorbs damage first
        LET hits == p.shieldHits + 1 IN
        IF hits >= shieldMaxHits
        THEN [p EXCEPT !.shieldHits = hits, !.shieldActive = FALSE,
                       !.shieldShatter = TU \div 2]
        ELSE [p EXCEPT !.shieldHits = hits]
    ELSE IF p.rings > 0 THEN
        [p EXCEPT !.rings = 0, !.invuln = TU, !.vx = -knockDir * 2000,
                  !.vy = -3600, !.grounded = FALSE]
    ELSE IF p.isBig THEN
        [p EXCEPT !.isBig = FALSE, !.invuln = (TU * 12) \div 10,
                  !.vx = -knockDir * Px(3), !.vy = -Px(5), !.grounded = FALSE]
    ELSE
        \* lives -= 1; invuln = 1.0; respawn() then clears invuln again
        respawn([p EXCEPT !.lives = p.lives - 1, !.invuln = TU],
                p.spawnX, p.spawnY)

\* Player.addComboScore with the multiplier left out.
addComboScore_noMultiplier(p, base) ==
    LET nowCombo == IF p.comboTimer > 0 THEN p.comboCount + 1 ELSE 1 IN
    [p EXCEPT !.comboCount = nowCombo,
              !.comboTimer = (TU * 3) \div 2,
              !.score = p.score + base]

addComboScore(p, base) ==
    LET nowCombo == IF p.comboTimer > 0 THEN p.comboCount + 1 ELSE 1 IN
    [p EXCEPT !.comboCount = nowCombo,
              !.comboTimer = (TU * 3) \div 2,
              \* Math.floor(base * (1 + (nowCombo - 1) * 0.5))
              !.score = p.score + (base * (nowCombo + 1)) \div 2]

getHitbox(p) ==
    IF p.rolling
    THEN rectFromCenterBottom(p.x, p.y, IF p.isBig THEN Px(30) ELSE Px(24),
                              IF p.isBig THEN Px(30) ELSE Px(24))
    ELSE rectFromCenterBottom(p.x, p.y, IF p.isBig THEN Px(20) ELSE Px(16),
                              IF p.isBig THEN Px(40) ELSE Px(28))

(***************************************************************************)
(* levels: task list of a level                                            *)
(***************************************************************************)
NumLevels == 10     \* LEVEL_DEFS.length

coinTargets == <<8, 10, 12, 14, 16, 18, 20, 22, 24, 26>>
timeTargets == <<120, 150, 140, 180, 160, 200>>

Task(id, type, target, mandatory) ==
    [id |-> id, type |-> type, target |-> target, mandatory |-> mandatory]

TaskPool(levelIndex) ==
    <<Task("coins", "coins", coinTargets[Min(levelIndex, 9) + 1], TRUE),
      Task("fly", "flyingEnemies", -1, levelIndex < 5),
      Task("spring", "springsUsed", IF levelIndex < 4 THEN 2 ELSE 3, FALSE)>>
    \o (IF levelIndex >= 2 THEN <<Task("both", "bothCoins", 1, FALSE)>> ELSE <<>>)
    \o (IF levelIndex >= 4 THEN <<Task("boss", "bossNoShield", 1, FALSE)>> ELSE <<>>)
    \o (IF levelIndex >= 3 THEN <<Task("ground", "groundEnemies", -1, FALSE)>> ELSE <<>>)
    \o (IF levelIndex >= 5
        THEN <<Task("time", "timeLimit", timeTargets[(levelIndex % 6) + 1] * TU, FALSE)>>
        ELSE <<>>)

getTasksForLevel(levelIndex) ==
    LET pool == TaskPool(levelIndex)
        count == Min(Len(pool), Max(2, 2 + (levelIndex % 3)))
    IN SubSeq(pool, 1, count)

(***************************************************************************)
(* game/enemies                                                            *)
(***************************************************************************)
NewEnemy(x, y, range, speed, hp) ==
    [x |-> x, y |-> y, w |-> Px(32), h |-> Px(28), baseX |-> x, baseY |-> y,
     range |-> range, speed |-> speed, amp |-> 0, t |-> 0, dir |-> 1,
     alive |-> TRUE, hp |-> hp, maxHp |-> hp, deathTimer |-> 0,
     isFlying |-> FALSE]

NewBirdEnemy(x, y, range, speed, amp, hp) ==
    [x |-> x, y |-> y, w |-> Px(32), h |-> Px(24), baseX |-> x, baseY |-> y,
     range |-> range, speed |-> speed, amp |-> amp, t |-> 0, dir |-> 1,
     alive |-> TRUE, hp |-> hp, maxHp |-> hp, deathTimer |-> 0,
     isFlying |-> TRUE]

NewBoss(x, y, levelIndex, maxHp) ==
    [present |-> TRUE,
     x |-> x, y |-> y, baseX |-> x, range |-> Px(200 + levelIndex * 10),
     w |-> Px(96), h |-> Px(96), maxHp |-> maxHp, hp |-> maxHp,
     alive |-> TRUE, deathTimer |-> 0, dir |-> -1, attackCooldown |-> 0,
     attackInterval |-> (TU * 25) \div 10 - levelIndex * (TU \div 10)]

NoBoss == [NewBoss(0, 0, 0, 0) EXCEPT !.present = FALSE, !.alive = FALSE]

\* Level._progress; the times are -1 while the code holds undefined.
NewProgress(flyingTotal, groundTotal) ==
    [coinsCollected |-> 0, flyingKilled |-> 0, flyingTotal |-> flyingTotal,
     groundKilled |-> 0, groundTotal |-> groundTotal, springsUsed |-> 0,
     hasPowerCoin |-> FALSE, hasShieldCoin |-> FALSE,
     bossDefeatedNoShield |-> FALSE, startTime |-> -1,
     reachedGoal |-> FALSE, goalReachedTime |-> -1]

\* Enemy.getAabb anchors at the bottom centre, BirdEnemy.getAabb at the centre.
EnemyAabb(e) ==
    IF e.isFlying
    THEN [x |-> e.x - e.w \div 2, y |-> e.y - e.h \div 2, w |-> e.w, h |-> e.h]
    ELSE [x |-> e.x - e.w \div 2, y |-> e.y - e.h, w |-> e.w, h |-> e.h]

BossAabb(b) == [x |-> b.x - b.w \div 2, y |-> b.y - b.h, w |-> b.w, h |-> b.h]

\* Enemy.takeHit / BirdEnemy.takeHit / Boss.takeHit (same body; the boss's
\* death timer is 0.6 s, the others' 0.5 s).
HostileTakeHit(e, amount, deathTime) ==
    IF ~e.alive THEN e
    ELSE LET hp == Max(0, e.hp - amount) IN
         IF hp <= 0
         THEN [e EXCEPT !.hp = hp, !.alive = FALSE, !.deathTimer = deathTime]
         ELSE [e EXCEPT !.hp = hp]

(***************************************************************************)
(* game/level: construction and reset                                      *)
(***************************************************************************)
Rect(x, y, w, h) == [x |-> Px(x), y |-> Px(y), w |-> Px(w), h |-> Px(h)]

StaticCoin(gx, gy) ==
    [x |-> Px(gx), y |-> Px(gy), vx |-> 0, vy |-> 0, active |-> TRUE, static |-> TRUE]

Magnet(mx, my) == [x |-> Px(mx), y |-> Px(my), collected |-> FALSE, bob |-> 0]

Spring(sx, sy, dir) == [x |-> Px(sx), y |-> Px(sy), w |-> Px(24), h |-> Px(16), dir |-> dir]

\* boxW = boxH = 32, boxY(top) = top - BOX_HEIGHT_ABOVE_GROUND - boxH
Box(bx, platformTopY, type) ==
    [x |-> Px(bx), y |-> Px(platformTopY - 48 - 32), w |-> Px(32), h |-> Px(32),
     type |-> type, used |-> FALSE]

\* [f(0), f(1), ..., f(n-1)] as a sequence (a JS for-loop pushing f(i)).
Tabulate(n, f(_)) == [i \in 1..n |-> f(i - 1)]

\* new Level(def, index).  createLevel, the only caller, passes the entry
\* LEVEL_DEFS[clamp(levelIndex, 0, LEVEL_DEFS.length - 1)] as def (the colours
\* of the level, held here as its place in LEVEL_DEFS) and the index as it
\* received it.
NewLevel(index) ==
    [def |-> clamp(index, 0, NumLevels - 1),
     index |-> index,
     width |-> Px(6200 + index * 520),
     height |-> Px(900),
     goalX |-> Px(6200 + index * 520 - 120),
     solids |-> <<>>, coins |-> <<>>, enemies |-> <<>>, powerPickups |-> <<>>,
     bullets |-> <<>>, boss |-> NoBoss,
     bossRewarded |-> FALSE, bossAttacks |-> <<>>, springs |-> <<>>,
     boxes |-> <<>>, fruits |-> <<>>, magnetPickups |-> <<>>,
     tasks |-> <<>>, progress |-> NewProgress(0, 0), completedTasks |-> {}]

\* The collections Level.reset rebuilds for a level of this index.
ResetLayout(index, width) ==
    LET lift == (index % 3) * 10
        pitWidth == 180 + (index % 4) * 40
        pitX1 == 980 + (index % 5) * 30
        pitX2 == pitX1 + pitWidth
        W == width \div PX
        baseY == 300 + lift
        springBaseX == pitX2 + 400 + index * 80
        floorCoinY == baseY - 10
        magnetY == baseY - 12
        plat1 == 250 - lift
        plat2 == 220 - lift
        plat3 == 260 - lift
        plat4 == 210 - lift
        layoutType == index % 4
        baseSolids ==
            <<Rect(0, 300 + lift, pitX1, 600),
              Rect(pitX2, 300 + lift, W - pitX2, 600),
              Rect(320, 250 - lift, 120, 20),
              Rect(520, 220 - lift, 140, 20),
              Rect(760, 260 - lift, 120, 20),
              Rect(1450, 210 - lift, 260, 20)>>
        coinsA == SelectSeq(Tabulate(14, LAMBDA i : 120 + i * 55 + (index % 3) * 5),
                            LAMBDA gx : gx < pitX1 - 40)
        coinsB == SelectSeq(Tabulate(12, LAMBDA i : pitX2 + 80 + i * 60 + (index % 2) * 8),
                            LAMBDA gx : gx < W - 80)
        coins == [k \in 1..Len(coinsA) |-> StaticCoin(coinsA[k], floorCoinY)]
                 \o [k \in 1..Len(coinsB) |-> StaticCoin(coinsB[k], floorCoinY)]
        magnets ==
            <<Magnet(420, magnetY),
              Magnet(pitX2 + 350 + index * 40, magnetY),
              Magnet(springBaseX + 350, magnetY)>>
            \o (IF index >= 3 THEN <<Magnet(W - 1200, magnetY)>> ELSE <<>>)
        springs ==
            <<Spring(340, 250 - lift, "up"),
              Spring(800, 260 - lift, "up"),
              Spring(1480, 210 - lift, "diag-right"),
              Spring(springBaseX, baseY - 20, "up"),
              Spring(springBaseX + 380, baseY - 80, "diag-left"),
              Spring(springBaseX + 720, baseY - 120, "up"),
              Spring(W - 800, baseY - 40, "diag-right")>>
        baseBoxes ==
            <<Box(380, plat1, "coin"), Box(440, plat1, "coin"), Box(500, plat1, "coin"),
              Box(560, plat2, "coin"), Box(620, plat2, "power_green"),
              Box(680, plat2, "coin"), Box(740, plat3, "growth"), Box(800, plat3, "coin"),
              Box(1100 + index * 60, baseY, "coin"),
              Box(springBaseX + 120, baseY - 20, "coin"),
              Box(springBaseX + 200, baseY - 20, "power_blue"),
              Box(springBaseX + 280, baseY - 20, "coin"),
              Box(springBaseX + 440, baseY - 100, "coin"),
              Box(springBaseX + 500, baseY - 100, "growth"),
              Box(springBaseX + 560, baseY - 100, "coin"),
              Box(springBaseX + 680, baseY - 140, "power_green"),
              Box(springBaseX + 740, baseY - 140, "coin")>>
        boss == NewBoss(Px(W - 260), Px(baseY), index, 10 + index * 4)
        enemyCount == 1 + index \div 2
        birdCount == 2 + index \div 3
        baseEnemies ==
            Tabulate(enemyCount, LAMBDA i :
                NewEnemy(Px(520 + i * 260 + (index % 3) * 40), Px(300 + lift),
                         Px(90 + i * 20), 440 + index * 16,
                         IF i % 2 = 0 THEN 2 ELSE 1))
            \o Tabulate(birdCount, LAMBDA i :
                NewBirdEnemy(Px(900 + index * 260 + i * 420),
                             Px(200 - (index % 3) * 20 - i * 10),
                             Px(140 + index * 12), 640 + index * 24,
                             Px(20 + (i % 2) * 10), 1))
        \* ---- Type A: staircase and sky route
        extraPitStart == W - 1100
        extraPitWidth == 220 + (index % 3) * 40
        afterPitStart == extraPitStart + extraPitWidth
        \* "lastGround" is the first solid with y = baseY, h >= 580: solid 1
        oldRight == pitX1
        splitA == afterPitStart < oldRight - 80
        firstStepX == pitX2 + 120
        firstStepY == baseY - 70
        skyY == baseY - 260
        solidsA ==
            (IF splitA
             THEN <<Rect(0, baseY, Max(0, extraPitStart), 600)>>
                  \o SubSeq(baseSolids, 2, 6)
                  \o <<Rect(afterPitStart, baseY, oldRight - afterPitStart, 600)>>
             ELSE baseSolids)
            \o Tabulate(4 + Min(4, index), LAMBDA i :
                  Rect(firstStepX + i * 180, firstStepY - i * 30, 140, 20))
            \o Tabulate(3 + Min(3, index \div 2), LAMBDA i :
                  Rect(firstStepX + 140 + i * 260 + index * 40,
                       skyY + (IF i % 2 = 0 THEN 0 ELSE -40), 160, 20))
        boxesA ==
            Tabulate(8 + index, LAMBDA i :
                Box(firstStepX + 20 + i * 70 - 16, firstStepY - i * 30, "coin"))
            \o Tabulate(6 + index \div 2, LAMBDA i :
                Box(firstStepX + 140 + i * 220 + index * 30 - 16,
                    skyY + (IF i % 2 = 0 THEN 0 ELSE -40), "coin"))
        enemiesA ==
            <<NewEnemy(Px(firstStepX + 3 * 180 + index * 40), Px(baseY),
                       Px(140 + index * 10), 600 + index * 24, 2),
              NewEnemy(Px(W - 550), Px(baseY),
                       Px(160 + index * 8), 680 + index * 28, 2)>>
        \* ---- Type B: zig-zag platforms and short pits
        segmentStart == pitX2 + 260
        platCount == 6 + index
        platTopB(i) == baseY - 80 - i * 10 * (IF i % 2 = 0 THEN 1 ELSE -1)
        solidsB ==
            baseSolids
            \o Tabulate(3 + index \div 2, LAMBDA i :
                  Rect(segmentStart + i * 320 + 120 + (i % 2) * 60, baseY, 200, 600))
            \o Tabulate(platCount, LAMBDA i :
                  Rect(segmentStart + i * 210, platTopB(i), 130, 20))
        boxesB ==
            Tabulate(platCount, LAMBDA i :
                Box(segmentStart + i * 210 + 40 - 16, platTopB(i), "coin"))
        enemiesB ==
            <<NewEnemy(Px(segmentStart + 260), Px(baseY),
                       Px(120 + index * 12), 640 + index * 24, 2),
              NewEnemy(Px(segmentStart + 260 * 3), Px(baseY - 40),
                       Px(140 + index * 10), 680 + index * 24, 1)>>
        \* ---- Type C: towers and stepping stones
        towerBase == pitX2 + 220
        stoneCount == 10 + index
        solidsC ==
            baseSolids
            \o Tabulate(4 + index \div 2, LAMBDA i :
                  Rect(towerBase + i * 320, baseY - 80 - i * 10, 80, 680))
            \o Tabulate(stoneCount, LAMBDA i :
                  Rect(towerBase + 80 + i * 160, baseY - 180 - (i % 3) * 40, 90, 18))
        boxesC ==
            Tabulate(stoneCount, LAMBDA i :
                Box(towerBase + 80 + i * 160 + 30 - 16, baseY - 180 - (i % 3) * 40, "coin"))
        enemiesC ==
            <<NewEnemy(Px(towerBase + 160), Px(baseY),
                       Px(150 + index * 10), 640 + index * 24, 2),
              NewEnemy(Px(towerBase + 160 * 3), Px(baseY - 60),
                       Px(130 + index * 8), 720 + index * 24, 1)>>
        \* ---- Type D: sky path with ground islands
        islandBase == pitX2 + 260
        skyPathY == baseY - 260
        skyPlats == 6 + index
        platTopD(i) == skyPathY + (IF i % 2 = 0 THEN -30 ELSE 20)
        solidsD ==
            baseSolids
            \o Tabulate(4 + index \div 2, LAMBDA i :
                  Rect(islandBase + i * 420, baseY, 180, 600))
            \o Tabulate(skyPlats, LAMBDA i :
                  Rect(islandBase + i * 220, platTopD(i), 150, 20))
        boxesD ==
            Tabulate(skyPlats, LAMBDA i :
                Box(islandBase + i * 220 + 50 - 16, platTopD(i), "coin"))
        enemiesD ==
            <<NewEnemy(Px(islandBase + 260), Px(baseY - 40),
                       Px(150 + index * 10), 680 + index * 24, 2),
              NewEnemy(Px(W - 620), Px(baseY - 80),
                       Px(190 + index * 8), 760 + index * 24, 1)>>
        solids == CASE layoutType = 0 -> solidsA [] layoutType = 1 -> solidsB
                    [] layoutType = 2 -> solidsC [] OTHER -> solidsD
        boxes == baseBoxes \o
                 (CASE layoutType = 0 -> boxesA [] layoutType = 1 -> boxesB
                    [] layoutType = 2 -> boxesC [] OTHER -> boxesD)
        enemies == baseEnemies \o
                   (CASE layoutType = 0 -> enemiesA [] layoutType = 1 -> enemiesB
                      [] layoutType = 2 -> enemiesC [] OTHER -> enemiesD)
    IN [solids |-> solids, coins |-> coins, magnets |-> magnets,
        springs |-> springs, boxes |-> boxes, boss |-> boss, enemies |-> enemies]

\* The tasks of a level with the "defeat all" targets filled in.
TasksFor(index, flyingTotal, groundTotal) ==
    LET tasks0 == getTasksForLevel(index) IN
    [k \in 1..Len(tasks0) |->
        IF tasks0[k].type = "flyingEnemies"
        THEN [tasks0[k] EXCEPT !.target = flyingTotal]
        ELSE IF tasks0[k].type = "groundEnemies"
        THEN [tasks0[k] EXCEPT !.target = groundTotal]
        ELSE tasks0[k]]

\* The assignments of Level.reset, lay being the collections it builds.
ResetTo(l, lay) ==
    [l EXCEPT
       !.bossRewarded = FALSE,
       !.solids = lay.solids,
       !.powerPickups = <<>>,
       !.coins = lay.coins,
       !.magnetPickups = lay.magnets,
       !.springs = lay.springs,
       !.boxes = lay.boxes,
       !.boss = lay.boss,
       !.enemies = lay.enemies,
       !.tasks = TasksFor(l.index,
                          Len(SelectSeq(lay.enemies, LAMBDA e : e.isFlying)),
                          Len(SelectSeq(lay.enemies, LAMBDA e : ~e.isFlying))),
       !.progress = NewProgress(Len(SelectSeq(lay.enemies, LAMBDA e : e.isFlying)),
                                Len(SelectSeq(lay.enemies, LAMBDA e : ~e.isFlying))),
       !.completedTasks = {}]

\* Level.reset with every per-play collection cleared (what a wholesale
\* reset would do); see reset below for what the code clears.
reset_wholesale(l) ==
    [ResetTo(l, ResetLayout(l.index, l.width)) EXCEPT
       !.bullets = <<>>, !.bossAttacks = <<>>, !.fruits = <<>>]

\* Level.reset: _bullets, _bossAttacks and _fruits are assigned only in the
\* constructor, never here.
reset(l) == ResetTo(l, ResetLayout(l.index, l.width))

createLevel(levelIndex) == reset(NewLevel(levelIndex))

(***************************************************************************)
(* game/level: Level.update, one section of the method per operator.  A    *)
(* "world" w is the pair [p |-> the player, l |-> the level] the method    *)
(* mutates; phb is the player's hitbox, which the method computes once on  *)
(* entry and keeps using after the player has moved or respawned.          *)
(***************************************************************************)
World(p, l) == [p |-> p, l |-> l]

\* for (k = from; k <= Count(w); k++) w = Step(w, k)
RECURSIVE ForEach(_, _, _, _)
ForEach(Step(_, _), Count(_), w, from) ==
    IF from > Count(w) THEN w ELSE ForEach(Step, Count, Step(w, from), from + 1)

\* Math.sin in thousandths, of an angle in milliradians (Bhaskara's rational
\* approximation; the code's doubles are approximations of the sine too).
PiMilli == 3142
SinMilli(angle) ==
    LET a == angle % (2 * PiMilli)
        x == IF a < PiMilli THEN a ELSE a - PiMilli
        q == x * (PiMilli - x)
        v == (16 * q * 10) \div ((5 * PiMilli * PiMilli - 4 * q) \div 100)
    IN IF a < PiMilli THEN v ELSE -v

\* Distances are compared in 1/32 px, squared; Near says both coordinate
\* differences are below r, so that the squares stay in range.
DQ == PX \div 32
Near(dx, dy, r) == Abs(dx) <= r /\ Abs(dy) <= r
Dist2(dx, dy) == (dx \div DQ) * (dx \div DQ) + (dy \div DQ) * (dy \div DQ)
Sq(r) == (r \div DQ) * (r \div DQ)
ISqrt(n) == CHOOSE k \in 0..(6400) : k * k <= n /\ (k + 1) * (k + 1) > n

\* The goal and timing flags at the top of Level.update.
UpdateGoalProgress(w, nowSeconds) ==
    LET pr0 == w.l.progress
        pr1 == IF pr0.startTime = -1 THEN [pr0 EXCEPT !.startTime = nowSeconds] ELSE pr0
        pr2 == IF w.p.x >= w.l.goalX - Px(20)
               THEN [pr1 EXCEPT !.reachedGoal = TRUE,
                                !.goalReachedTime =
                                    IF pr1.goalReachedTime = -1 THEN nowSeconds
                                    ELSE pr1.goalReachedTime]
               ELSE pr1
    IN World(w.p, [w.l EXCEPT !.progress = pr2])

maxSpringVy == -7020     \* -6.5 * 1.35 px per tick

SpringStep(w, k, phb) ==
    LET s == w.l.springs[k]
        sy == s.y - s.h
        sb == [x |-> s.x - s.w \div 2, y |-> sy, w |-> s.w, h |-> s.h]
        playerBottom == phb.y + phb.h
    IN IF ~aabbIntersects(phb, sb) THEN w
       ELSE IF w.p.vy < 0 THEN w
       ELSE IF playerBottom < sy + Px(4) THEN w
       ELSE IF playerBottom > s.y + Px(8) THEN w
       ELSE World([w.p EXCEPT !.grounded = FALSE,
                              !.springLaunchTimer = (TU * 4) \div 10,
                              !.justLaunchedSpring = TRUE,
                              !.vy = maxSpringVy,
                              !.vx = IF s.dir = "up" THEN 0
                                     ELSE IF s.dir = "diag-left" THEN -Px(4)
                                     ELSE Px(4)],
                  [w.l EXCEPT !.progress.springsUsed = @ + 1])

UpdateSprings(w, phb) ==
    ForEach(LAMBDA v, k : SpringStep(v, k, phb), LAMBDA v : Len(v.l.springs), w, 1)

\* What an activated box releases into the level.
BoxCoins(box, index) ==
    LET count == Max(1, 1 + (index % 3))
        cx == box.x + box.w \div 2
        spawnY == box.y - Px(28)
    IN Tabulate(count, LAMBDA i :
          [x |-> cx + (2 * i - count) * Px(4), y |-> spawnY,
           vx |-> (2 * i - count) * 720, vy |-> -Px(9) - i * 480,
           active |-> TRUE, static |-> FALSE])

BoxPickup(box) ==
    LET cx == box.x + box.w \div 2
        spawnY == box.y - Px(28)
    IN [x |-> cx, y |-> spawnY, vy |-> -2560, maxY |-> spawnY - Px(22),
        type |-> box.type, collected |-> FALSE]

\* The box test without the one-shot guard "if (box.used) continue".
BoxStep_reusable(w, k, phb) ==
    LET box == w.l.boxes[k]
        boxBottom == box.y + box.h
        playerTop == phb.y
        playerBottom == phb.y + phb.h
        prevPlayerTop == playerTop - w.p.vy
        hitFromBelow == /\ prevPlayerTop >= boxBottom
                        /\ playerTop < boxBottom
                        /\ playerBottom > box.y
    IN IF phb.x + phb.w < box.x \/ phb.x > box.x + box.w THEN w
       ELSE IF w.p.vy >= 0 THEN w
       ELSE IF ~hitFromBelow THEN w
       ELSE LET l1 == [w.l EXCEPT !.boxes[k].used = TRUE]
                l2 == IF box.type = "coin"
                      THEN [l1 EXCEPT !.coins = @ \o BoxCoins(box, w.l.index)]
                      ELSE IF box.type \in {"power_green", "power_blue"}
                      THEN [l1 EXCEPT !.powerPickups = Append(@, BoxPickup(box))]
                      ELSE IF box.type = "growth"
                      THEN [l1 EXCEPT !.fruits = Append(@, BoxPickup(box))]
                      ELSE l1
            IN World([w.p EXCEPT !.vy = 480], l2)

BoxStep(w, k, phb) ==
    LET box == w.l.boxes[k]
        boxBottom == box.y + box.h
        playerTop == phb.y
        playerBottom == phb.y + phb.h
        prevPlayerTop == playerTop - w.p.vy
        hitFromBelow == /\ prevPlayerTop >= boxBottom
                        /\ playerTop < boxBottom
                        /\ playerBottom > box.y
    IN IF box.used THEN w
       ELSE IF phb.x + phb.w < box.x \/ phb.x > box.x + box.w THEN w
       ELSE IF w.p.vy >= 0 THEN w
       ELSE IF ~hitFromBelow THEN w
       ELSE LET l1 == [w.l EXCEPT !.boxes[k].used = TRUE]
                l2 == IF box.type = "coin"
                      THEN [l1 EXCEPT !.coins = @ \o BoxCoins(box, w.l.index)]
                      ELSE IF box.type \in {"power_green", "power_blue"}
                      THEN [l1 EXCEPT !.powerPickups = Append(@, BoxPickup(box))]
                      ELSE IF box.type = "growth"
                      THEN [l1 EXCEPT !.fruits = Append(@, BoxPickup(box))]
                      ELSE l1
            IN World([w.p EXCEPT !.vy = 480], l2)

UpdateBoxes(w, phb) ==
    ForEach(LAMBDA v, k : BoxStep(v, k, phb), LAMBDA v : Len(v.l.boxes), w, 1)

\* v * 0.45 rounded toward zero.
Scale45(v) == IF v >= 0 THEN (v * 9) \div 20 ELSE -(((-v) * 9) \div 20)

\* Released coins: gravity and bounce on the ground line of the level.
CoinPhysics(c, boxGroundY) ==
    IF ~c.active \/ c.static THEN c
    ELSE LET vy1 == c.vy + 320
             y1 == c.y + vy1
             x1 == c.x + c.vx
         IN IF y1 >= boxGroundY
            THEN LET vy2 == -Scale45(vy1) IN
                 [c EXCEPT !.x = x1, !.y = boxGroundY,
                           !.vy = IF Abs(vy2) < Px(2) THEN 0 ELSE vy2]
            ELSE [c EXCEPT !.x = x1, !.y = y1, !.vy = vy1]

UpdateCoinPhysics(w) ==
    LET boxGroundY == Px(300 + (w.l.index % 3) * 10) IN
    World(w.p, [w.l EXCEPT !.coins =
                   [k \in 1..Len(w.l.coins) |-> CoinPhysics(w.l.coins[k], boxGroundY)]])

\* Collecting one coin: the coin goes inactive, the counters go up by one.
CollectCoin(w, k) ==
    World(addComboScore([w.p EXCEPT !.rings = @ + 1], 10),
          [w.l EXCEPT !.coins[k].active = FALSE,
                      !.progress.coinsCollected = @ + 1])

MAGNET_RADIUS == 140
MAGNET_PULL_SPEED == 4400    \* 5.5 px per tick
MAGNET_COLLECT_R == 28

MagnetStep(w, k, px, py) ==
    LET c == w.l.coins[k]
        dx == px - c.x
        dy == py - c.y
        inField == Near(dx, dy, Px(MAGNET_RADIUS))
        d2 == IF inField THEN Dist2(dx, dy) ELSE 0
        dist == IF inField THEN ISqrt(d2) * DQ ELSE 0
        pulled == inField /\ d2 < Sq(Px(MAGNET_RADIUS)) /\ dist > PX \div 10
        move == Min(MAGNET_PULL_SPEED, dist)
        cx1 == IF pulled THEN c.x + sign(dx) * ((Abs(dx) * move) \div dist) ELSE c.x
        cy1 == IF pulled THEN c.y + sign(dy) * ((Abs(dy) * move) \div dist) ELSE c.y
        dx1 == px - cx1
        dy1 == py - cy1
        w1 == World(w.p, [w.l EXCEPT !.coins[k].x = cx1, !.coins[k].y = cy1])
    IN IF ~c.active THEN w
       ELSE IF Near(dx1, dy1, Px(MAGNET_COLLECT_R))
               /\ Dist2(dx1, dy1) < Sq(Px(MAGNET_COLLECT_R))
            THEN CollectCoin(w1, k)
            ELSE w1

UpdateMagnet(w, px, py) ==
    IF w.p.magnetTimer > 0
    THEN ForEach(LAMBDA v, k : MagnetStep(v, k, px, py), LAMBDA v : Len(v.l.coins), w, 1)
    ELSE w

\* The direct pickup without its test "if (!c.active) continue".
DirectCoinStep_again(w, k, px, py) ==
    LET c == w.l.coins[k]
        dx == c.x - px
        dy == c.y - py
    IN IF Near(dx, dy, Px(16)) /\ Dist2(dx, dy) <= Sq(Px(16))
       THEN CollectCoin(w, k)
       ELSE w

DirectCoinStep(w, k, px, py) ==
    LET c == w.l.coins[k]
        dx == c.x - px
        dy == c.y - py
    IN IF ~c.active THEN w
       ELSE IF Near(dx, dy, Px(16)) /\ Dist2(dx, dy) <= Sq(Px(16))
            THEN CollectCoin(w, k)
            ELSE w

UpdateDirectCoins(w, px, py) ==
    ForEach(LAMBDA v, k : DirectCoinStep(v, k, px, py), LAMBDA v : Len(v.l.coins), w, 1)

MagnetDuration == 8      \* seconds

\* The magnet pickup adding its duration to the time left.
MagnetPickupStep_stacking(w, k, px, py) ==
    LET mp == w.l.magnetPickups[k]
        bob == (mp.bob + 100) % (2 * PiMilli)
        mx == mp.x
        my == mp.y + (SinMilli(bob) * Px(4)) \div 1000
        mdx == px - mx
        mdy == py - my
        hit == Near(mdx, mdy, Px(24)) /\ Dist2(mdx, mdy) <= Sq(Px(24))
    IN IF mp.collected THEN w
       ELSE World(IF hit THEN [w.p EXCEPT !.magnetTimer = @ + MagnetDuration * TU] ELSE w.p,
                  [w.l EXCEPT !.magnetPickups[k].bob = bob,
                              !.magnetPickups[k].collected = hit])

MagnetPickupStep(w, k, px, py) ==
    LET mp == w.l.magnetPickups[k]
        bob == (mp.bob + 100) % (2 * PiMilli)
        mx == mp.x
        my == mp.y + (SinMilli(bob) * Px(4)) \div 1000
        mdx == px - mx
        mdy == py - my
        hit == Near(mdx, mdy, Px(24)) /\ Dist2(mdx, mdy) <= Sq(Px(24))
    IN IF mp.collected THEN w
       ELSE World(IF hit THEN [w.p EXCEPT !.magnetTimer = MagnetDuration * TU] ELSE w.p,
                  [w.l EXCEPT !.magnetPickups[k].bob = bob,
                              !.magnetPickups[k].collected = hit])

UpdateMagnetPickups(w, px, py) ==
    LET w1 == ForEach(LAMBDA v, k : MagnetPickupStep(v, k, px, py),
                      LAMBDA v : Len(v.l.magnetPickups), w, 1)
    IN World(w1.p, [w1.l EXCEPT !.magnetPickups =
                       SelectSeq(@, LAMBDA m : ~m.collected)])

\* Rise of a released power orb or fruit, and its pickup box.
PickupRise(pp) ==
    LET y1 == pp.y + pp.vy
        vy1 == Min(pp.vy + 48, 960)
        vy2 == IF vy1 < -2800 THEN -2800 ELSE vy1
    IN IF y1 < pp.maxY
       THEN [pp EXCEPT !.y = pp.maxY, !.vy = 0]
       ELSE [pp EXCEPT !.y = y1, !.vy = vy2]

PickupBox(pp) == [x |-> pp.x - Px(14), y |-> pp.y - Px(14), w |-> Px(28), h |-> Px(28)]

PowerPickupStep(w, k, phb) ==
    LET pp0 == w.l.powerPickups[k]
        pp == PickupRise(pp0)
        hit == aabbIntersects(phb, PickupBox(pp))
        l1 == [w.l EXCEPT !.powerPickups[k] = [pp EXCEPT !.collected = hit]]
    IN IF pp0.collected THEN w
       ELSE IF ~hit THEN World(w.p, l1)
       ELSE IF pp.type = "power_green"
       THEN World([w.p EXCEPT !.hasGunPower = TRUE, !.gunCooldown = 0,
                              !.powerFlash = TU \div 2],
                  [l1 EXCEPT !.progress.hasPowerCoin = TRUE])
       ELSE World([w.p EXCEPT !.hasShieldPower = TRUE, !.powerFlash = TU \div 2],
                  [l1 EXCEPT !.progress.hasShieldCoin = TRUE])

UpdatePowerPickups(w, phb) ==
    LET w1 == ForEach(LAMBDA v, k : PowerPickupStep(v, k, phb),
                      LAMBDA v : Len(v.l.powerPickups), w, 1)
    IN World(w1.p, [w1.l EXCEPT !.powerPickups =
                       SelectSeq(@, LAMBDA q : ~q.collected)])

FruitStep(w, k, phb) ==
    LET f0 == w.l.fruits[k]
        f == PickupRise(f0)
        hit == aabbIntersects(phb, PickupBox(f))
        l1 == [w.l EXCEPT !.fruits[k] = [f EXCEPT !.collected = hit]]
    IN IF f0.collected THEN w
       ELSE IF ~hit THEN World(w.p, l1)
       ELSE World([w.p EXCEPT !.isBig = TRUE,
                              !.growthTransformTimer = (TU * 6) \div 10], l1)

UpdateFruits(w, phb) ==
    LET w1 == ForEach(LAMBDA v, k : FruitStep(v, k, phb), LAMBDA v : Len(v.l.fruits), w, 1)
    IN World(w1.p, [w1.l EXCEPT !.fruits = SelectSeq(@, LAMBDA q : ~q.collected)])

(***************************************************************************)
(* Enemy.update, BirdEnemy.update, Boss.update                             *)
(***************************************************************************)
EnemyUpdate(e, dt) ==
    IF ~e.alive THEN [e EXCEPT !.deathTimer = CountDown(e.deathTimer, dt)]
    ELSE LET x1 == e.x + e.dir * e.speed
             d1 == IF x1 > e.baseX + e.range THEN -1 ELSE e.dir
             d2 == IF x1 < e.baseX - e.range THEN 1 ELSE d1
             t1 == e.t + dt
         IN IF e.isFlying
            THEN [e EXCEPT !.x = x1, !.dir = d2, !.t = t1,
                           !.y = e.baseY
                                 + (SinMilli((t1 * 3 * 1000) \div TU) * e.amp) \div 1000]
            ELSE [e EXCEPT !.x = x1, !.dir = d2]

\* life: 3.0.  The filter of Level.update tests life <= 0 after each
\* "life -= dt" with dt = 1/60 as a double: 3.0 less 180 times dt leaves
\* 5.7e-15, which is positive, so the test first succeeds in the 181st
\* update.  One unit above 3 * TU gives the countdown the same sign at every
\* update.  (1.0 less 60 times dt is -1.4e-15: a bullet's life is TU exactly.)
AttackLife == 3 * TU + 1

spawnBossAttack(l, x, y, vx, vy) ==
    [l EXCEPT !.bossAttacks =
        Append(@, [x |-> x, y |-> y, vx |-> vx, vy |-> vy, life |-> AttackLife, r |-> Px(12)])]

spawnBullet(l, x, y, dir) ==
    [l EXCEPT !.bullets =
        Append(@, [x |-> x, y |-> y, vx |-> dir * Px(12), life |-> TU, dir |-> dir])]

\* Boss.update: the level after the boss has moved and perhaps fired.
BossUpdate(l, p, dt) ==
    LET b == l.boss
        x1 == b.x + b.dir * 560
        d1 == IF x1 > b.baseX + b.range THEN -1 ELSE b.dir
        d2 == IF x1 < b.baseX - b.range THEN 1 ELSE d1
        b1 == [b EXCEPT !.x = x1, !.dir = d2]
        dx == p.x - x1
        distX == Abs(dx)
    IN IF ~b.alive
       THEN [l EXCEPT !.boss.deathTimer = Max(0, b.deathTimer - dt)]
       ELSE IF b.attackCooldown > 0
       THEN [l EXCEPT !.boss = [b1 EXCEPT !.attackCooldown = Max(0, b.attackCooldown - dt)]]
       ELSE IF distX < Px(800) /\ distX > Px(30)
       THEN spawnBossAttack([l EXCEPT !.boss = [b1 EXCEPT !.attackCooldown = b.attackInterval]],
                            x1, b.y - Px(40), IF dx > 0 THEN Px(5) ELSE -Px(5), 0)
       ELSE [l EXCEPT !.boss = b1]

(***************************************************************************)
(* Level.update, second half: hostiles, projectiles, rewards, tasks        *)
(***************************************************************************)
\* The enemy contact without its test "if (!e.alive) continue".
EnemyContactStep_deadBites(w, k, phb) ==
    LET e == w.l.enemies[k]
        eb == EnemyAabb(e)
        playerBottom == phb.y + phb.h
        wasAbove == playerBottom - w.p.vy <= eb.y + Px(6)
    IN IF ~aabbIntersects(phb, eb) THEN w
       ELSE IF w.p.vy > 0 /\ wasAbove
       THEN World([addComboScore(w.p, 100) EXCEPT !.vy = -3600, !.grounded = FALSE],
                  [w.l EXCEPT !.enemies[k].alive = FALSE,
                              !.progress.flyingKilled = IF e.isFlying THEN @ + 1 ELSE @,
                              !.progress.groundKilled = IF e.isFlying THEN @ ELSE @ + 1])
       ELSE World(takeHit(w.p, IF w.p.x < e.x THEN -1 ELSE 1), w.l)

EnemyContactStep(w, k, phb) ==
    LET e == w.l.enemies[k]
        eb == EnemyAabb(e)
        playerBottom == phb.y + phb.h
        wasAbove == playerBottom - w.p.vy <= eb.y + Px(6)
    IN IF ~e.alive THEN w
       ELSE IF ~aabbIntersects(phb, eb) THEN w
       ELSE IF w.p.vy > 0 /\ wasAbove
       THEN World([addComboScore(w.p, 100) EXCEPT !.vy = -3600, !.grounded = FALSE],
                  [w.l EXCEPT !.enemies[k].alive = FALSE,
                              !.progress.flyingKilled = IF e.isFlying THEN @ + 1 ELSE @,
                              !.progress.groundKilled = IF e.isFlying THEN @ ELSE @ + 1])
       ELSE World(takeHit(w.p, IF w.p.x < e.x THEN -1 ELSE 1), w.l)

UpdateEnemies(w, phb, dt) ==
    LET l1 == [w.l EXCEPT !.enemies =
                  [k \in 1..Len(w.l.enemies) |-> EnemyUpdate(w.l.enemies[k], dt)]]
    IN ForEach(LAMBDA v, k : EnemyContactStep(v, k, phb), LAMBDA v : Len(v.l.enemies),
               World(w.p, l1), 1)

\* The boss contact with a stomp that costs the boss a hit point.
UpdateBoss_stompHurts(w, phb, dt) ==
    IF ~w.l.boss.present THEN w
    ELSE LET l1 == BossUpdate(w.l, w.p, dt)
             bb == BossAabb(l1.boss)
             playerBottom == phb.y + phb.h
             wasAboveBoss == playerBottom - w.p.vy <= bb.y + Px(8)
         IN IF ~l1.boss.alive THEN World(w.p, l1)
            ELSE IF ~aabbIntersects(phb, bb) THEN World(w.p, l1)
            ELSE IF w.p.vy > 0 /\ wasAboveBoss
            THEN World([w.p EXCEPT !.vy = -Px(5), !.grounded = FALSE],
                       [l1 EXCEPT !.boss = HostileTakeHit(l1.boss, 1, (TU * 6) \div 10)])
            ELSE World(takeHit(w.p, IF w.p.x < l1.boss.x THEN -1 ELSE 1), l1)

UpdateBoss(w, phb, dt) ==
    IF ~w.l.boss.present THEN w
    ELSE LET l1 == BossUpdate(w.l, w.p, dt)
             bb == BossAabb(l1.boss)
             playerBottom == phb.y + phb.h
             wasAboveBoss == playerBottom - w.p.vy <= bb.y + Px(8)
         IN IF ~l1.boss.alive THEN World(w.p, l1)
            ELSE IF ~aabbIntersects(phb, bb) THEN World(w.p, l1)
            ELSE IF w.p.vy > 0 /\ wasAboveBoss
            THEN World([w.p EXCEPT !.vy = -Px(5), !.grounded = FALSE], l1)
            ELSE World(takeHit(w.p, IF w.p.x < l1.boss.x THEN -1 ELSE 1), l1)

MoveAttack(atk, dt) ==
    [atk EXCEPT !.x = atk.x + atk.vx, !.y = atk.y + atk.vy, !.life = atk.life - dt]

\* The filter callback over the boss attacks: kept holds the survivors.
RECURSIVE FilterAttacks(_, _, _, _, _)
FilterAttacks(w, atks, k, kept, phb) ==
    IF k > Len(atks) THEN World(w.p, [w.l EXCEPT !.bossAttacks = kept])
    ELSE LET atk == atks[k]
             ab == [x |-> atk.x - atk.r, y |-> atk.y - atk.r,
                    w |-> atk.r * 2, h |-> atk.r * 2]
         IN IF atk.life <= 0 \/ atk.x < -Px(100) \/ atk.x > w.l.width + Px(100)
            THEN FilterAttacks(w, atks, k + 1, kept, phb)
            ELSE IF aabbIntersects(phb, ab)
            THEN FilterAttacks(World(takeHit(w.p, IF w.p.x < atk.x THEN -1 ELSE 1), w.l),
                               atks, k + 1, kept, phb)
            ELSE FilterAttacks(w, atks, k + 1, Append(kept, atk), phb)

UpdateBossAttacks(w, phb, dt) ==
    LET moved == [k \in 1..Len(w.l.bossAttacks) |-> MoveAttack(w.l.bossAttacks[k], dt)]
    IN FilterAttacks(w, moved, 1, <<>>, phb)

\* The first enemy the bullet box touches, without "if (!e.alive) continue".
FirstEnemyHit_dead(enemies, bb) ==
    LET hits == {k \in 1..Len(enemies) : aabbIntersects(bb, EnemyAabb(enemies[k]))}
    IN IF hits = {} THEN 0 ELSE CHOOSE k \in hits : \A j \in hits : k <= j

\* Index of the first living enemy the bullet box touches, 0 if none.
FirstEnemyHit(enemies, bb) ==
    LET hits == {k \in 1..Len(enemies) :
                    enemies[k].alive /\ aabbIntersects(bb, EnemyAabb(enemies[k]))}
    IN IF hits = {} THEN 0 ELSE CHOOSE k \in hits : \A j \in hits : k <= j

RECURSIVE FilterBullets(_, _, _, _)
FilterBullets(w, bs, k, kept) ==
    IF k > Len(bs) THEN World(w.p, [w.l EXCEPT !.bullets = kept])
    ELSE LET b == bs[k]
             bb == [x |-> b.x - Px(4), y |-> b.y - Px(4), w |-> Px(8), h |-> Px(8)]
             hit == FirstEnemyHit(w.l.enemies, bb)
         IN IF b.life <= 0 \/ b.x < -Px(100) \/ b.x > w.l.width + Px(100)
            THEN FilterBullets(w, bs, k + 1, kept)
            ELSE IF hit # 0
            THEN LET e0 == w.l.enemies[hit]
                     e1 == HostileTakeHit(e0, 1, TU \div 2)
                     l1 == [w.l EXCEPT !.enemies[hit] = e1]
                 IN IF ~e1.alive
                    THEN FilterBullets(
                            World(addComboScore(w.p, 80),
                                  [l1 EXCEPT
                                     !.progress.flyingKilled = IF e1.isFlying THEN @ + 1 ELSE @,
                                     !.progress.groundKilled = IF e1.isFlying THEN @ ELSE @ + 1]),
                            bs, k + 1, kept)
                    ELSE FilterBullets(World(w.p, l1), bs, k + 1, kept)
            ELSE IF w.l.boss.present /\ w.l.boss.alive
                    /\ aabbIntersects(bb, BossAabb(w.l.boss))
            THEN FilterBullets(
                    World(addComboScore(w.p, 150),
                          [w.l EXCEPT !.boss = HostileTakeHit(w.l.boss, 1, (TU * 6) \div 10)]),
                    bs, k + 1, kept)
            ELSE FilterBullets(w, bs, k + 1, Append(kept, b))

UpdateBullets(w, dt) ==
    LET moved == [k \in 1..Len(w.l.bullets) |->
                     [w.l.bullets[k] EXCEPT !.x = @ + w.l.bullets[k].vx,
                                            !.life = @ - dt]]
    IN FilterBullets(w, moved, 1, <<>>)

BossRewardCoins(cx, cy) ==
    Tabulate(24, LAMBDA i :
        [x |-> cx - Px(120) + i * Px(10), y |-> cy - (i % 4) * Px(8),
         vx |-> ((i % 5) - 2) * 2000, vy |-> -Px(6) - (i % 3) * Px(2),
         active |-> TRUE, static |-> FALSE])

\* The boss-defeat block without its test of _bossRewarded.
UpdateBossReward_again(w) ==
    IF w.l.boss.present /\ ~w.l.boss.alive
    THEN LET cx == w.l.boss.x
             cy == w.l.boss.y - Px(40)
             rewardY == cy - Px(40)
             p1 == addComboScore(w.p, 1000)
         IN World([p1 EXCEPT !.rings = @ + 20],
                  [w.l EXCEPT !.bossRewarded = TRUE,
                              !.bossAttacks = <<>>,
                              !.progress.bossDefeatedNoShield = (w.p.shieldHits < shieldMaxHits),
                              !.coins = @ \o BossRewardCoins(cx, cy),
                              !.powerPickups = Append(@,
                                  [x |-> cx, y |-> rewardY, vy |-> -2560,
                                   maxY |-> rewardY - Px(22), type |-> "power_green",
                                   collected |-> FALSE])])
    ELSE w

UpdateBossReward(w) ==
    IF w.l.boss.present /\ ~w.l.boss.alive /\ ~w.l.bossRewarded
    THEN LET cx == w.l.boss.x
             cy == w.l.boss.y - Px(40)
             rewardY == cy - Px(40)
             p1 == addComboScore(w.p, 1000)
         IN World([p1 EXCEPT !.rings = @ + 20],
                  [w.l EXCEPT !.bossRewarded = TRUE,
                              !.bossAttacks = <<>>,
                              !.progress.bossDefeatedNoShield = (w.p.shieldHits < shieldMaxHits),
                              !.coins = @ \o BossRewardCoins(cx, cy),
                              !.powerPickups = Append(@,
                                  [x |-> cx, y |-> rewardY, vy |-> -2560,
                                   maxY |-> rewardY - Px(22), type |-> "power_green",
                                   collected |-> FALSE])])
    ELSE w

\* "done" of one task against the progress record.
TaskDone(t, pr) ==
    IF t.type = "coins" THEN pr.coinsCollected >= t.target
    ELSE IF t.type = "flyingEnemies"
    THEN pr.flyingKilled >= (IF t.target # 0 THEN t.target ELSE pr.flyingTotal)
    ELSE IF t.type = "groundEnemies"
    THEN pr.groundKilled >= (IF t.target # 0 THEN t.target ELSE pr.groundTotal)
    ELSE IF t.type = "springsUsed" THEN pr.springsUsed >= t.target
    ELSE IF t.type = "bothCoins" THEN pr.hasPowerCoin /\ pr.hasShieldCoin
    ELSE IF t.type = "bossNoShield" THEN pr.bossDefeatedNoShield
    ELSE IF t.type = "timeLimit"
    THEN pr.reachedGoal /\ (pr.goalReachedTime - pr.startTime <= t.target)
    ELSE FALSE

\* The task block without its test "if (this._completedTasks.has(t.id))
\* continue".
TaskStep_again(w, k) ==
    LET t == w.l.tasks[k] IN
    IF TaskDone(t, w.l.progress)
    THEN World(IF ~t.mandatory THEN [w.p EXCEPT !.rings = @ + 5] ELSE w.p,
               [w.l EXCEPT !.completedTasks = @ \cup {t.id}])
    ELSE w

TaskStep(w, k) ==
    LET t == w.l.tasks[k] IN
    IF t.id \in w.l.completedTasks THEN w
    ELSE IF TaskDone(t, w.l.progress)
    THEN World(IF ~t.mandatory THEN [w.p EXCEPT !.rings = @ + 5] ELSE w.p,
               [w.l EXCEPT !.completedTasks = @ \cup {t.id}])
    ELSE w

UpdateTasks(w) == ForEach(TaskStep, LAMBDA v : Len(v.l.tasks), w, 1)

\* Level.update(dt, player, nowSeconds) up to its boss-defeat block.
BeforeReward(l, p, dt, nowSeconds) ==
    LET phb == getHitbox(p)
        px == phb.x + phb.w \div 2
        py == phb.y + phb.h \div 2
        w0 == UpdateGoalProgress(World(p, l), nowSeconds)
        w1 == UpdateSprings(w0, phb)
        w2 == UpdateBoxes(w1, phb)
        w3 == UpdateCoinPhysics(w2)
        w4 == UpdateMagnet(w3, px, py)
        w5 == UpdateDirectCoins(w4, px, py)
        w6 == UpdateMagnetPickups(w5, px, py)
        w7 == UpdatePowerPickups(w6, phb)
        w8 == UpdateFruits(w7, phb)
        w9 == UpdateEnemies(w8, phb, dt)
        w10 == UpdateBoss(w9, phb, dt)
        w11 == UpdateBossAttacks(w10, phb, dt)
    IN UpdateBullets(w11, dt)

\* Level.update(dt, player, nowSeconds) up to its task block.
BeforeTasks(l, p, dt, nowSeconds) ==
    UpdateBossReward(BeforeReward(l, p, dt, nowSeconds))

\* Level.update(dt, player, nowSeconds)
LevelUpdate(l, p, dt, nowSeconds) == UpdateTasks(BeforeTasks(l, p, dt, nowSeconds))

\* The gate asking for every task of the list, mandatory or not.
areMandatoryTasksComplete_everyTask(l) ==
    \A k \in 1..Len(l.tasks) : l.tasks[k].id \in l.completedTasks

areMandatoryTasksComplete(l) ==
    \A k \in 1..Len(l.tasks) :
        l.tasks[k].mandatory => l.tasks[k].id \in l.completedTasks

hasAliveBoss(l) == l.boss.present /\ l.boss.alive

getSolidsNear(l, hb) ==
    LET margin == Px(96)
        minX == hb.x - margin
        maxX == hb.x + hb.w + margin
        platformSolids == SelectSeq(l.solids, LAMBDA s : s.x < maxX /\ s.x + s.w > minX)
        near == SelectSeq(l.boxes, LAMBDA b : b.x + b.w > minX /\ b.x < maxX)
        boxTops == [k \in 1..Len(near) |->
                       [x |-> near[k].x, y |-> near[k].y, w |-> near[k].w, h |-> Px(8)]]
    IN platformSolids \o boxTops

(***************************************************************************)
(* core/input: InputHandler                                                *)
(***************************************************************************)
DEFAULT_BINDINGS ==
    [left |-> {"ArrowLeft", "KeyA", "TouchLeft"},
     right |-> {"ArrowRight", "KeyD", "TouchRight"},
     down |-> {"ArrowDown", "KeyS"},
     up |-> {"ArrowUp", "KeyW"},
     jump |-> {"Space", "KeyZ", "KeyX", "KeyC", "ShiftLeft", "ShiftRight", "TouchJump"},
     shoot |-> {"KeyF", "ControlLeft", "ControlRight", "TouchShoot"},
     shield |-> {"KeyE", "TouchShield"},
     pause |-> {"Enter", "KeyP", "TouchPause"},
     reset |-> {"KeyR"}]

\* _levelSelectIndex is -1 while the code holds null.
NewInput ==
    [down |-> {}, pressedThisFrame |-> {}, releasedThisFrame |-> {},
     jumpBufferedUntil |-> 0, jumpReleasedThisFrame |-> FALSE,
     levelSelectIndex |-> -1]

\* The digit a "DigitN" code carries, -1 for any other code.
DigitOf(code) ==
    IF code = "Digit0" THEN 10
    ELSE IF code = "Digit1" THEN 1
    ELSE IF code = "Digit2" THEN 2
    ELSE IF code = "Digit3" THEN 3
    ELSE IF code = "Digit9" THEN 9
    ELSE -1

keydown(inp, code) ==
    LET n == DigitOf(code) IN
    [inp EXCEPT !.down = @ \cup {code},
                !.pressedThisFrame = @ \cup {code},
                !.levelSelectIndex = IF n # -1 THEN (n - 1 + 10) % 10 ELSE @]

keyup(inp, code) ==
    [inp EXCEPT !.down = @ \ {code}, !.releasedThisFrame = @ \cup {code}]

anyDown(inp, action) == DEFAULT_BINDINGS[action] \cap inp.down # {}
anyJustPressed(inp, action) == DEFAULT_BINDINGS[action] \cap inp.pressedThisFrame # {}
anyJustReleased(inp, action) == DEFAULT_BINDINGS[action] \cap inp.releasedThisFrame # {}

beginFrame(inp, nowSeconds) ==
    [inp EXCEPT !.jumpReleasedThisFrame = anyJustReleased(inp, "jump"),
                !.jumpBufferedUntil = IF anyJustPressed(inp, "jump")
                                      THEN nowSeconds + jumpBufferSeconds ELSE @]

endFrame(inp) == [inp EXCEPT !.pressedThisFrame = {}, !.releasedThisFrame = {}]

jumpBuffered(inp, nowSeconds) == nowSeconds <= inp.jumpBufferedUntil

\* consumeJumpBuffer leaving the buffer as it is.
consumeJumpBuffer_keeps(inp) == inp

consumeJumpBuffer(inp) == [inp EXCEPT !.jumpBufferedUntil = 0]

(***************************************************************************)
(* game/player: Player.update and Player._collideWithLevel                 *)
(***************************************************************************)
\* The landing loop: hb is the hitbox taken before the loop, the velocity
\* read in the crossing test is the player's current one.
LandStep(p, s, hb, nowSeconds) ==
    LET prevBottom == hb.y + hb.h - p.vy
        nextBottom == hb.y + hb.h
        onTopCross == /\ prevBottom <= s.y
                      /\ nextBottom >= s.y
                      /\ hb.x + hb.w > s.x
                      /\ hb.x < s.x + s.w
    IN IF p.vy >= 0 /\ onTopCross
       THEN [p EXCEPT !.y = s.y, !.vy = 0, !.grounded = TRUE,
                      !.coyoteUntil = nowSeconds + coyoteSeconds,
                      !.jumpsRemaining = 2]
       ELSE p

RECURSIVE LandLoop(_, _, _, _, _)
LandLoop(p, solids, k, hb, nowSeconds) ==
    IF k > Len(solids) THEN p
    ELSE LandLoop(LandStep(p, solids[k], hb, nowSeconds), solids, k + 1, hb, nowSeconds)

PushStep(p, s, hb2) ==
    LET intersects == /\ hb2.x < s.x + s.w
                      /\ hb2.x + hb2.w > s.x
                      /\ hb2.y < s.y + s.h
                      /\ hb2.y + hb2.h > s.y
        overlapLeft == hb2.x + hb2.w - s.x
        overlapRight == s.x + s.w - hb2.x
    IN IF ~intersects THEN p
       ELSE [p EXCEPT !.x = IF overlapLeft < overlapRight THEN @ - overlapLeft
                            ELSE @ + overlapRight,
                      !.vx = 0]

RECURSIVE PushLoop(_, _, _, _)
PushLoop(p, solids, k, hb2) ==
    IF k > Len(solids) THEN p
    ELSE PushLoop(PushStep(p, solids[k], hb2), solids, k + 1, hb2)

\* The push-out pass and the fall out of the world.
PushOut(p, solids, l) ==
    LET p3 == PushLoop(p, solids, 1, getHitbox(p))
    IN IF p3.y > l.height + Px(200) THEN takeHit(p3, 1) ELSE p3

\* The landing pass, hb being the hitbox of the clamped player.
Land(p, l, hb, nowSeconds) ==
    PushOut(LandLoop([p EXCEPT !.grounded = FALSE], getSolidsNear(l, hb), 1, hb,
                     nowSeconds),
            getSolidsNear(l, hb), l)

\* _collideWithLevel without its first line.
ClampToLevel_none(p, l) == p

ClampToLevel(p, l) == [p EXCEPT !.x = clamp(p.x, Px(20), l.width - Px(20))]

collideWithLevel(p, l, nowSeconds) ==
    Land(ClampToLevel(p, l), l, getHitbox(ClampToLevel(p, l)), nowSeconds)

doubleJumpVel == 4420     \* jumpVel * 0.85

\* v * PHYS.jumpCutMultiplier (0.5) for v < 0, rounded toward zero.
JumpCut(v) == -((-v) \div 2)

\* Player.update, the timers: every countdown, and the combo reset.
\* The timers of Player.update without "if (this.comboTimer === 0)
\* this.comboCount = 0".
UpdateTimers_keepsCombo(p, dt) ==
    [p EXCEPT !.invuln = CountDown(@, dt),
              !.gunCooldown = CountDown(@, dt),
              !.powerFlash = CountDown(@, dt),
              !.shootFlash = CountDown(@, dt),
              !.comboTimer = CountDown(@, dt),
              !.shieldShatter = CountDown(@, dt),
              !.springLaunchTimer = CountDown(@, dt),
              !.growthTransformTimer = CountDown(@, dt),
              !.magnetTimer = CountDown(@, dt)]

UpdateTimers(p, dt) ==
    [p EXCEPT !.invuln = CountDown(@, dt),
              !.gunCooldown = CountDown(@, dt),
              !.powerFlash = CountDown(@, dt),
              !.shootFlash = CountDown(@, dt),
              !.comboTimer = CountDown(@, dt),
              !.comboCount = IF p.comboTimer > 0 /\ CountDown(p.comboTimer, dt) = 0
                             THEN 0 ELSE @,
              !.shieldShatter = CountDown(@, dt),
              !.springLaunchTimer = CountDown(@, dt),
              !.growthTransformTimer = CountDown(@, dt),
              !.magnetTimer = CountDown(@, dt)]

\* The shield toggle without "if (this.shieldHits >= this.shieldMaxHits)
\* this.shieldHits = 0".
ToggleShield_keepsHits(p, inp) ==
    IF p.hasShieldPower /\ anyJustPressed(inp, "shield")
    THEN IF p.shieldActive
         THEN [p EXCEPT !.shieldActive = FALSE, !.shieldShatter = (TU * 3) \div 10]
         ELSE [p EXCEPT !.shieldActive = TRUE]
    ELSE p

\* Player.update, the shield toggle.
ToggleShield(p, inp) ==
    IF p.hasShieldPower /\ anyJustPressed(inp, "shield")
    THEN IF p.shieldActive
         THEN [p EXCEPT !.shieldActive = FALSE, !.shieldShatter = (TU * 3) \div 10]
         ELSE [p EXCEPT !.shieldActive = TRUE,
                        !.shieldHits = IF @ >= shieldMaxHits THEN 0 ELSE @]
    ELSE p

\* Player.update, the buffered jump: a ground (or coyote) jump, else an air
\* jump; either consumes the jump buffer.
BufferedJump(p, inp, nowSeconds) ==
    LET buffered == jumpBuffered(inp, nowSeconds)
        canGroundJump == p.grounded \/ nowSeconds <= p.coyoteUntil
    IN IF buffered /\ canGroundJump
       THEN [p |-> [p EXCEPT !.grounded = FALSE, !.vy = -jumpVel, !.jumpsRemaining = 1],
             input |-> consumeJumpBuffer(inp)]
       ELSE IF buffered /\ ~p.grounded /\ p.jumpsRemaining > 0
       THEN [p |-> [p EXCEPT !.grounded = FALSE, !.vy = -doubleJumpVel,
                             !.jumpsRemaining = 0],
             input |-> consumeJumpBuffer(inp)]
       ELSE [p |-> p, input |-> inp]

\* Player.update, the variable jump height.
ReleaseJump(p, inp) ==
    IF inp.jumpReleasedThisFrame /\ p.vy < 0 THEN [p EXCEPT !.vy = JumpCut(@)] ELSE p

\* Player.update, the horizontal velocity kept when no direction is held.
Run_keepsVelocity(p, left, right, down) ==
    LET startRoll == p.grounded /\ ~p.rolling /\ down /\ Abs(p.vx) > PX \div 2
        rolling1 == p.rolling \/ startRoll
    IN [p EXCEPT !.vx = IF left # right THEN (IF left THEN -topSpeed ELSE topSpeed) ELSE @,
                 !.rolling = IF rolling1 /\ left = right /\ p.grounded
                             THEN FALSE ELSE rolling1]

\* Player.update, rolling and the horizontal velocity.
Run(p, left, right, down) ==
    LET startRoll == p.grounded /\ ~p.rolling /\ down /\ Abs(p.vx) > PX \div 2
        rolling1 == p.rolling \/ startRoll
    IN [p EXCEPT !.vx = IF left # right THEN (IF left THEN -topSpeed ELSE topSpeed) ELSE 0,
                 !.rolling = IF rolling1 /\ left = right /\ p.grounded
                             THEN FALSE ELSE rolling1]

\* Player.update, gravity.
Fall(p) == IF ~p.grounded THEN [p EXCEPT !.vy = Min(@ + gravity, terminalVel)] ELSE p

\* Player.update, the position and the facing.
Integrate(p) ==
    [p EXCEPT !.x = @ + p.vx, !.y = @ + p.vy,
              !.facing = IF p.vx # 0 THEN (IF p.vx > 0 THEN 1 ELSE -1) ELSE @]

\* Player.update after the jump, j being the player and input it left.
MoveAndCollide(j, inp, l, nowSeconds) ==
    [p |-> collideWithLevel(
              Integrate(Fall(Run(ReleaseJump(j.p, inp), anyDown(inp, "left"),
                                 anyDown(inp, "right"), anyDown(inp, "down")))),
              l, nowSeconds),
     input |-> j.input]

\* Player.update(dt, input, level, nowSeconds): the player and the input
\* handler (whose jump buffer the method may consume) afterwards.
PlayerUpdate(p, inp, l, dt, nowSeconds) ==
    MoveAndCollide(BufferedJump(ToggleShield(UpdateTimers(p, dt), inp), inp, nowSeconds),
                   inp, l, nowSeconds)

(***************************************************************************)
(* core/engine: GameEngine.  A "sim" m is the tuple of objects the engine  *)
(* owns: [eng |-> its own fields, player, level, input].                   *)
(***************************************************************************)
Sim(e, p, l, i) == [eng |-> e, player |-> p, level |-> l, input |-> i]

NewEngine ==
    [state |-> "title", accumulator |-> 0, timeSeconds |-> 0, levelIndex |-> 0,
     gameOver |-> FALSE, settingsOpen |-> FALSE]

SpawnX == 80
SpawnY == 220

\* player.setSpawn({x: 80, y: 220}); player.respawn({x: 80, y: 220})
Restart(p) == respawn(setSpawn(p, Px(SpawnX), Px(SpawnY)), Px(SpawnX), Px(SpawnY))

\* GameEngine._reset
EngineReset(m) ==
    Sim([m.eng EXCEPT !.levelIndex = 0, !.gameOver = FALSE, !.state = "title",
                      !.accumulator = 0, !.timeSeconds = 0],
        Restart([m.player EXCEPT !.lives = StartLives, !.rings = 0, !.score = 0]),
        createLevel(0),
        m.input)

\* The goal test at the end of _step.
GoalReached(m) ==
    /\ m.player.x >= m.level.goalX
    /\ m.player.grounded
    /\ ~hasAliveBoss(m.level)

\* _step, the shot: a bullet from the muzzle and the cooldown.
Shoot(m) ==
    LET dir == IF anyDown(m.input, "left") /\ ~anyDown(m.input, "right") THEN -1 ELSE 1
    IN IF m.player.hasGunPower /\ anyJustPressed(m.input, "shoot")
          /\ m.player.gunCooldown <= 0
       THEN Sim(m.eng,
                [m.player EXCEPT !.gunCooldown = TU \div 4,
                                 !.shootFlash = (TU * 15) \div 100],
                spawnBullet(m.level, m.player.x + dir * Px(24), m.player.y - Px(24), dir),
                m.input)
       ELSE m

PlayerMoved(m, pu) == Sim(m.eng, pu.p, m.level, pu.input)

\* _step, player.update.
UpdatePlayer(m, dt) ==
    PlayerMoved(m, PlayerUpdate([m.player EXCEPT !.justLaunchedSpring = FALSE],
                                m.input, m.level, dt, m.eng.timeSeconds))

WorldMoved(m, w) == Sim(m.eng, w.p, w.l, m.input)

\* _step, level.update.
UpdateLevel(m, dt) ==
    WorldMoved(m, LevelUpdate(m.level, m.player, dt, m.eng.timeSeconds))

\* _step up to and including level.update.
StepWorld(m, dt) == UpdateLevel(UpdatePlayer(Shoot(m), dt), dt)

\* _step after level.update, m1 being the sim level.update left: the
\* game-over test and the goal test.
StepEnd(m1) ==
    IF m1.player.lives <= 0
    THEN [m1 EXCEPT !.eng.gameOver = TRUE]
    ELSE IF GoalReached(m1)
    THEN IF m1.eng.levelIndex + 1 >= NumLevels
         THEN EngineReset([m1 EXCEPT !.eng.levelIndex = @ + 1])
         ELSE Sim([m1.eng EXCEPT !.levelIndex = @ + 1], Restart(m1.player),
                  createLevel(m1.eng.levelIndex + 1), m1.input)
    ELSE m1

\* _step after its guard "if (this.gameOver) return".
StepBody(m, dt) == StepEnd(StepWorld(m, dt))

\* A tick that ignores the game-over flag.
Step_noGameOverGuard(m, dt) == StepBody(m, dt)

\* GameEngine._step
Step(m, dt) == IF m.eng.gameOver THEN m ELSE StepBody(m, dt)

\* while (accumulator >= fixedDt) { _step(fixedDt); accumulator -= fixedDt }
\* The result carries the number n of _step calls made.
RECURSIVE StepLoop(_, _)
StepLoop(m, n) ==
    IF m.eng.accumulator >= fixedDt
    THEN StepLoop([Step(m, fixedDt) EXCEPT !.eng.accumulator = @ - fixedDt], n + 1)
    ELSE [m |-> m, ticks |-> n]

\* The title-screen block of _frame.
SelectLevel(m, idx) ==
    Sim([m.eng EXCEPT !.levelIndex = idx], Restart(m.player), createLevel(idx), m.input)

\* The title screen: a digit key picks a level.
TitleDigit(m) ==
    IF m.input.levelSelectIndex # -1
    THEN SelectLevel([m EXCEPT !.input.levelSelectIndex = -1], m.input.levelSelectIndex)
    ELSE m

\* The title screen: left and right step through the levels.
TitleArrows(m) ==
    IF anyJustPressed(m.input, "left") \/ anyJustPressed(m.input, "right")
    THEN SelectLevel(m, IF anyJustPressed(m.input, "left")
                        THEN (m.eng.levelIndex - 1 + NumLevels) % NumLevels
                        ELSE (m.eng.levelIndex + 1) % NumLevels)
    ELSE m

\* The title screen: up, down or a buffered jump starts the game.
TitleStart(m) ==
    IF \/ anyDown(m.input, "up")
       \/ anyDown(m.input, "down")
       \/ jumpBuffered(m.input, m.eng.timeSeconds)
    THEN [m EXCEPT !.eng.state = "playing", !.input = consumeJumpBuffer(m.input)]
    ELSE m

TitleBlock(m) == TitleStart(TitleArrows(TitleDigit(m)))

\* _frame: input.beginFrame and the clock.
FrameBegin(m) == [m EXCEPT !.input = beginFrame(m.input, m.eng.timeSeconds)]

FrameClock(m, dt) == [m EXCEPT !.eng.timeSeconds = @ + dt]

FrameTitle(m) == IF m.eng.state = "title" THEN TitleBlock(m) ELSE m

FrameReset(m) == IF anyJustPressed(m.input, "reset") THEN EngineReset(m) ELSE m

FramePause(m) ==
    IF anyJustPressed(m.input, "pause") /\ m.eng.state # "title" /\ ~m.eng.settingsOpen
    THEN [m EXCEPT !.eng.state = IF @ = "paused" THEN "playing" ELSE "paused"]
    ELSE m

\* GameEngine._frame up to its accumulator loop, for a frame that arrives
\* d after the previous one; the accumulator has not yet received dt.
FrameStart(m, d) ==
    IF m.eng.settingsOpen THEN FrameBegin(m)
    ELSE FramePause(FrameReset(FrameTitle(FrameClock(FrameBegin(m), Min(maxDt, d)))))

\* The sim and the bookkeeping of a frame whose accumulator loop ran.
FrameRan(run, acc) ==
    [m |-> [run.m EXCEPT !.input = endFrame(run.m.input)],
     playing |-> TRUE, ticks |-> run.ticks, acc |-> acc]

\* _frame from the accumulator block on without its test
\* "if (this.state === GameState.playing)".
FrameEnd_anyState(m4, open, dt) ==
    IF ~open
    THEN FrameRan(StepLoop([m4 EXCEPT !.eng.accumulator = @ + dt], 0),
                  m4.eng.accumulator)
    ELSE [m |-> [m4 EXCEPT !.input = endFrame(m4.input)],
          playing |-> FALSE, ticks |-> 0, acc |-> m4.eng.accumulator]

\* _frame from the accumulator block on, m4 being the sim FrameStart left.
FrameEnd(m4, open, dt) ==
    IF ~open /\ m4.eng.state = "playing"
    THEN FrameRan(StepLoop([m4 EXCEPT !.eng.accumulator = @ + dt], 0),
                  m4.eng.accumulator)
    ELSE [m |-> [m4 EXCEPT !.input = endFrame(m4.input)],
          playing |-> FALSE, ticks |-> 0, acc |-> m4.eng.accumulator]

\* GameEngine._frame: the sim afterwards, whether the accumulator block
\* ran, the number of ticks it ran and the accumulator it started from.
FrameRun(m, d) == FrameEnd(FrameStart(m, d), m.eng.settingsOpen, Min(maxDt, d))

FrameOp(m, d) == FrameRun(m, d).m

resume(m) == IF m.eng.state = "paused" THEN [m EXCEPT !.eng.state = "playing"] ELSE m

replayLevel(m) ==
    IF m.eng.state # "paused" /\ ~m.eng.gameOver THEN m
    ELSE Sim([m.eng EXCEPT !.state = "playing", !.gameOver = FALSE],
             Restart(m.player), reset(m.level), m.input)

exitToMenu(m) ==
    IF m.eng.state = "paused" \/ m.eng.gameOver THEN EngineReset(m) ELSE m

openSettings(m) ==
    [m EXCEPT !.eng.settingsOpen = TRUE,
              !.eng.state = IF @ = "playing" THEN "paused" ELSE @]

closeSettings(m) == [m EXCEPT !.eng.settingsOpen = FALSE]

(***************************************************************************)
(* The engine as a state machine.  eng, player, level and input are the    *)
(* engine's objects; last records the operation that produced the state    *)
(* (with the engine and player it started from) and what the environment   *)
(* may still do: the keys it uses, the frame intervals it produces and how *)
(* many frames, key events and menu commands remain.                       *)
(***************************************************************************)
Cur == Sim(eng, player, level, input)

Becomes(m) ==
    /\ eng' = m.eng
    /\ player' = m.player
    /\ level' = m.level
    /\ input' = m.input

Pre == [eng |-> eng, player |-> player]

Env(keys, deltas, frames, events, ui) ==
    [op |-> "init", keys |-> keys, deltas |-> deltas, frames |-> frames,
     events |-> events, ui |-> ui, d |-> 0, ticks |-> 0, twinTicks |-> 0,
     playing |-> FALSE, acc |-> 0, jumps |-> <<>>, kills |-> <<>>, beat |-> 0,
     pre |-> [eng |-> NewEngine, player |-> NewPlayer(0, 0)]]

\* A keydown event of the browser (auto-repeat events return at once).
KeyDown(code) ==
    /\ last.events > 0
    /\ code \in last.keys
    /\ code \notin input.down
    /\ input' = keydown(input, code)
    /\ last' = [last EXCEPT !.op = "keydown", !.events = @ - 1, !.pre = Pre]
    /\ UNCHANGED <<eng, player, level, twin>>

KeyUp(code) ==
    /\ last.events > 0
    /\ code \in input.down
    /\ input' = keyup(input, code)
    /\ last' = [last EXCEPT !.op = "keyup", !.events = @ - 1, !.pre = Pre]
    /\ UNCHANGED <<eng, player, level, twin>>

\* The variables after a frame of interval d with result r.
Rendered(r, d) ==
    /\ Becomes(r.m)
    /\ last' = [last EXCEPT !.op = "frame", !.frames = @ - 1, !.d = d,
                            !.ticks = r.ticks, !.playing = r.playing,
                            !.acc = r.acc, !.pre = Pre]

\* One requestAnimationFrame callback, d after the previous one.
Frame(d) ==
    /\ last.frames > 0
    /\ d \in last.deltas
    /\ Rendered(FrameRun(Cur, d), d)
    /\ UNCHANGED twin

Command(name, m) ==
    /\ last.ui > 0
    /\ Becomes(m)
    /\ last' = [last EXCEPT !.op = name, !.ui = @ - 1, !.pre = Pre]
    /\ UNCHANGED twin

Resume == Command("resume", resume(Cur))
ReplayLevel == Command("replayLevel", replayLevel(Cur))
ExitToMenu == Command("exitToMenu", exitToMenu(Cur))
OpenSettings == Command("openSettings", openSettings(Cur))
CloseSettings == Command("closeSettings", closeSettings(Cur))

AllKeys == UNION {DEFAULT_BINDINGS[a] : a \in DOMAIN DEFAULT_BINDINGS}
              \cup {"Digit0", "Digit1", "Digit2", "Digit3", "Digit9"}

\* Frame intervals in 1/TU s: half a tick, one tick, two ticks, and an
\* interval beyond maxDt.
HalfDelta == fixedDt \div 2
TickDelta == fixedDt
TwoTickDelta == 2 * fixedDt
SlowDelta == 4 * fixedDt

\* twin holds the second run of a pair of runs; a lone run has none.
NoTwin == Sim(NewEngine, NewPlayer(0, 0), NewLevel(0), NewInput)

\* bootstrap: the title screen of level 1, the player at the spawn point.
Bootstrap == Sim(NewEngine, NewPlayer(Px(SpawnX), Px(SpawnY)), createLevel(0), NewInput)

MaxFrames == 3
MaxEvents == 2
MaxCommands == 2

Init ==
    /\ eng = Bootstrap.eng
    /\ player = Bootstrap.player
    /\ level = Bootstrap.level
    /\ input = Bootstrap.input
    /\ twin = NoTwin
    /\ last = Env({"Space", "ArrowRight", "Enter", "KeyR", "Digit0"},
                  {HalfDelta, TickDelta, SlowDelta}, MaxFrames, MaxEvents, MaxCommands)

Next ==
    \/ \E code \in AllKeys : KeyDown(code)
    \/ \E code \in AllKeys : KeyUp(code)
    \/ \E d \in {HalfDelta, TickDelta, TwoTickDelta, SlowDelta} : Frame(d)
    \/ Resume
    \/ ReplayLevel
    \/ ExitToMenu
    \/ OpenSettings
    \/ CloseSettings

Spec == Init /\ [][Next]_vars

(***************************************************************************)
(* Player.takeHit on its own: players in every combination of the fields   *)
(* the method reads, and hits from either side.                            *)
(***************************************************************************)
MaxHits == 6
MaxRings == 2

\* The shield fields as the code can leave them: no power; power with the
\* shield down after h absorbed hits; shield up, not yet broken.
ShieldStates ==
    {[power |-> FALSE, active |-> FALSE, hits |-> 0]}
    \cup {[power |-> TRUE, active |-> FALSE, hits |-> h] : h \in 0..shieldMaxHits}
    \cup {[power |-> TRUE, active |-> TRUE, hits |-> h] : h \in 0..(shieldMaxHits - 1)}

HitPlayers ==
    {[setSpawn(NewPlayer(Px(pos[1]), Px(pos[2])), Px(SpawnX), Px(SpawnY)) EXCEPT
         !.vx = pos[3], !.grounded = (pos[3] # 0),
         !.rings = r, !.lives = lv, !.invuln = inv,
         !.hasShieldPower = sh.power, !.shieldActive = sh.active,
         !.shieldHits = sh.hits, !.isBig = big, !.hasGunPower = gun,
         !.magnetTimer = IF gun THEN 2 * TU ELSE 0,
         !.score = IF r > 0 THEN 10 * r ELSE 0] :
       pos \in {<<SpawnX, SpawnY, 0>>, <<500, 300, topSpeed>>},
       r \in 0..MaxRings, lv \in {1, 2, StartLives}, inv \in {0, TU \div 2},
       sh \in ShieldStates, big \in BOOLEAN, gun \in BOOLEAN}

InitHit ==
    /\ eng = [NewEngine EXCEPT !.state = "playing"]
    /\ player \in HitPlayers
    /\ level = NewLevel(0)
    /\ input = NewInput
    /\ twin = NoTwin
    /\ last = Env({}, {}, 0, MaxHits, 0)

Hit(knockDir) ==
    /\ last.events > 0
    /\ player' = takeHit(player, knockDir)
    /\ last' = [last EXCEPT !.op = "takeHit", !.events = @ - 1, !.pre = Pre]
    /\ UNCHANGED <<eng, level, input, twin>>

NextHit == \E knockDir \in {-1, 1} : Hit(knockDir)

SpecHit == InitHit /\ [][NextHit]_vars

WasHit == last.op = "takeHit"
Before == last.pre.player
Vulnerable(p) == p.invuln = 0
Shielded(p) == p.shieldActive /\ p.hasShieldPower

\* C2: a hit on a vulnerable player whose shield is up and not yet broken
\* changes nothing but the shield: rings and lives stay, shieldHits goes up
\* by one, and on reaching shieldMaxHits the shield goes down with its
\* shatter timer started; a hit on a vulnerable player whose shield has
\* been broken that way takes the ring, growth or life path instead.
ShieldAbsorbsFirst ==
    /\ (WasHit /\ Vulnerable(Before) /\ Before.shieldActive
          /\ Before.shieldHits < shieldMaxHits)
       => /\ player.rings = Before.rings
          /\ player.lives = Before.lives
          /\ player.shieldHits = Before.shieldHits + 1
          /\ (player.shieldHits < shieldMaxHits
                => player = [Before EXCEPT !.shieldHits = @ + 1])
          /\ (player.shieldHits >= shieldMaxHits
                => /\ ~player.shieldActive
                   /\ player.shieldShatter > 0
                   /\ player = [Before EXCEPT !.shieldHits = @ + 1,
                                              !.shieldActive = FALSE,
                                              !.shieldShatter = player.shieldShatter])
    /\ (WasHit /\ Vulnerable(Before) /\ ~Before.shieldActive
          /\ Before.shieldHits >= shieldMaxHits)
       => /\ player.shieldHits # Before.shieldHits + 1
          /\ \/ Before.rings > 0 /\ player.rings = 0
             \/ Before.rings = 0 /\ Before.isBig /\ ~player.isBig
             \/ Before.rings = 0 /\ ~Before.isBig /\ player.lives = Before.lives - 1

\* The fifth hit on a shield breaks it while the rings it guarded stay.
ShieldBreaks ==
    /\ WasHit /\ Vulnerable(Before) /\ Before.shieldActive
    /\ Before.shieldHits = shieldMaxHits - 1 /\ Before.rings > 0
    /\ player.shieldHits = shieldMaxHits /\ ~player.shieldActive
    /\ player.rings = Before.rings

\* Which branch of takeHit a hit on p takes.
Branch(p) ==
    IF ~Vulnerable(p) THEN "none"
    ELSE IF Shielded(p) THEN "shield"
    ELSE IF p.rings > 0 THEN "rings"
    ELSE IF p.isBig THEN "growth"
    ELSE "life"

\* C3: a hit takes exactly one of shield > rings > growth > life.  Lives go
\* down only for a vulnerable, unshielded player with no rings who is not
\* big; with rings the hit zeroes them, starts invulnerability and leaves
\* lives and isBig; with no rings and isBig it clears isBig, starts
\* invulnerability and leaves lives.
LifeIsLastResort ==
    WasHit =>
      /\ player.lives # Before.lives => Branch(Before) = "life"
      /\ Branch(Before) = "rings"
           => /\ player.rings = 0 /\ player.invuln > 0
              /\ player.lives = Before.lives /\ player.isBig = Before.isBig
              /\ player.shieldHits = Before.shieldHits
      /\ Branch(Before) = "growth"
           => /\ ~player.isBig /\ player.invuln > 0
              /\ player.lives = Before.lives /\ player.rings = Before.rings
              /\ player.shieldHits = Before.shieldHits
      /\ Branch(Before) = "shield"
           => /\ player.shieldHits = Before.shieldHits + 1
              /\ player.lives = Before.lives /\ player.rings = Before.rings
              /\ player.isBig = Before.isBig
      /\ Branch(Before) = "life"
           => /\ player.lives = Before.lives - 1
              /\ player.rings = Before.rings /\ player.isBig = Before.isBig
      /\ Branch(Before) = "none" => player = Before

\* A hit on a player holding rings took the rings and no life.
RingsPaid ==
    /\ WasHit /\ Branch(Before) = "rings" /\ Before.isBig
    /\ player.rings = 0 /\ player.invuln > 0
    /\ player.lives = Before.lives /\ player.isBig

\* C4: a hit on a vulnerable player with no shield up, no rings and not big
\* costs exactly one life and respawns: position at the stored spawn point,
\* velocity zero, gun, shield, growth and magnet cleared, score and rings
\* as before.
LifeLossRespawns ==
    (WasHit /\ Vulnerable(Before) /\ ~Before.shieldActive
       /\ Before.rings = 0 /\ ~Before.isBig)
    => /\ player.lives = Before.lives - 1
       /\ player.x = Before.spawnX /\ player.y = Before.spawnY
       /\ player.vx = 0 /\ player.vy = 0
       /\ ~player.hasGunPower
       /\ ~player.hasShieldPower /\ ~player.shieldActive /\ player.shieldHits = 0
       /\ ~player.isBig
       /\ player.magnetTimer = 0
       /\ player.score = Before.score /\ player.rings = Before.rings
       /\ player.spawnX = Before.spawnX /\ player.spawnY = Before.spawnY

\* A moving, armed player away from the spawn point lost a life.
LifeLost ==
    /\ WasHit /\ Branch(Before) = "life"
    /\ Before.hasGunPower /\ Before.hasShieldPower /\ Before.magnetTimer > 0
    /\ Before.x # Before.spawnX /\ Before.vx # 0
    /\ player.lives = Before.lives - 1 /\ player.x = Before.spawnX

\* C13: while the invulnerability timer is running, takeHit changes no
\* field of the player, whatever the direction of the hit and whatever the
\* shield, ring and growth state.
InvulnerableHitIsNoOp ==
    (WasHit /\ Before.invuln > 0) => player = Before

\* An invulnerable player with rings, grown and without a shield was hit
\* and kept the rings.
InvulnerableKeptRings ==
    /\ WasHit /\ Before.invuln > 0
    /\ Before.rings > 0 /\ Before.isBig /\ ~Shielded(Before)
    /\ player.rings = Before.rings /\ player.invuln = Before.invuln

(***************************************************************************)
(* Player._collideWithLevel on its own: in each level, a falling player    *)
(* whose integration step has just carried the bottom of the hitbox to or  *)
(* past the top of one of the level's solids.                              *)
(***************************************************************************)
\* Fall speeds in px per tick, up to PHYS.terminalVel.
FallSpeeds == {Px(2), Px(6), Px(11), terminalVel}

\* Platform solids and box tops of the whole level, as getSolidsNear hands
\* them out.
AllSolids(l) ==
    l.solids \o [k \in 1..Len(l.boxes) |->
                    [x |-> l.boxes[k].x, y |-> l.boxes[k].y,
                     w |-> l.boxes[k].w, h |-> Px(8)]]

\* A player falling at speed vy whose bottom is now depth below the top
\* of solid s, at horizontal offset off from its left edge.
FallingOnto(s, off, depth, vy) ==
    [setSpawn(NewPlayer(s.x + off, s.y + depth), Px(SpawnX), Px(SpawnY)) EXCEPT
        !.vy = vy, !.rings = 1]

InitCollide ==
    \E i \in 0..(NumLevels - 1) :
      LET l == createLevel(i) IN
      \E k \in 1..Len(AllSolids(l)) :
        LET s == AllSolids(l)[k] IN
        \E off \in {Px(4), s.w \div 2, s.w - Px(4)}, vy \in FallSpeeds :
          \E depth \in {0, vy} :
            /\ eng = [NewEngine EXCEPT !.state = "playing", !.levelIndex = i,
                                       !.timeSeconds = TU]
            /\ level = l
            /\ player = FallingOnto(s, off, depth, vy)
            /\ input = NewInput
            /\ twin = NoTwin
            /\ last = Env({}, {}, 0, 1, 0)

Collide ==
    /\ last.events > 0
    /\ player' = collideWithLevel(player, level, eng.timeSeconds)
    /\ last' = [last EXCEPT !.op = "collide", !.events = @ - 1, !.pre = Pre]
    /\ UNCHANGED <<eng, level, input, twin>>

NextCollide == Collide

SpecCollide == InitCollide /\ [][NextCollide]_vars

\* The hitbox the vertical pass works with: the player's, after the clamp
\* of x to the level.
PassHitbox(p, l) == getHitbox([p EXCEPT !.x = clamp(p.x, Px(20), l.width - Px(20))])

\* prevBottom <= S.top <= newBottom with x-overlap, for the fall p arrives with.
Crossed(p, l, s) ==
    LET hb == PassHitbox(p, l) IN
    /\ p.vy >= 0
    /\ hb.y + hb.h - p.vy <= s.y
    /\ hb.y + hb.h >= s.y
    /\ hb.x + hb.w > s.x
    /\ hb.x < s.x + s.w

CandidateSolids(p, l) ==
    LET near == getSolidsNear(l, PassHitbox(p, l)) IN
    {near[k] : k \in {j \in 1..Len(near) : Crossed(p, l, near[j])}}

\* C6: after collision resolution of a fall (vy >= 0), for every solid S
\* whose top the bottom of the hitbox crossed in this tick with x-overlap,
\* the player's bottom y is S.top, vy is 0 and grounded is true, also when
\* several solids were crossed in the same tick.
LandsOnEveryCrossedSolid ==
    last.op = "collide" =>
      \A s \in CandidateSolids(last.pre.player, level) :
         player.y = s.y /\ player.vy = 0 /\ player.grounded

\* With a single crossed top the resolver lands on it.
LandsOnSingleCrossedSolid ==
    (last.op = "collide"
       /\ \E y \in {s.y : s \in CandidateSolids(last.pre.player, level)} :
            \A s \in CandidateSolids(last.pre.player, level) : s.y = y)
    => \A s \in CandidateSolids(last.pre.player, level) :
         player.y = s.y /\ player.vy = 0 /\ player.grounded

(***************************************************************************)
(* Play near the goal: the states of a level in the tick its boss died,    *)
(* the player standing one step short of the goal post.                    *)
(***************************************************************************)
Playing(levelIndex, nowSeconds, acc) ==
    [NewEngine EXCEPT !.state = "playing", !.levelIndex = levelIndex,
                      !.timeSeconds = nowSeconds, !.accumulator = acc]

\* Ground line of a level (baseY of Level.reset).
BaseY(index) == Px(300 + (index % 3) * 10)

\* A player standing at (x, y), the spawn point where the engine puts it.
Standing(x, y, nowSeconds) ==
    [setSpawn(NewPlayer(x, y), Px(SpawnX), Px(SpawnY)) EXCEPT
        !.grounded = TRUE, !.coyoteUntil = nowSeconds + coyoteSeconds]

\* Level i after the last bullet killed its boss, the player having
\* collected `coins` coins and the gun orb on the way.
AtGoal(i, coins, nowSeconds, acc) ==
    LET l0 == createLevel(i)
        l1 == [l0 EXCEPT !.boss.hp = 0, !.boss.alive = FALSE,
                         !.boss.deathTimer = (TU * 6) \div 10,
                         !.boxes[5].used = TRUE,
                         !.progress.startTime = 0,
                         !.progress.hasPowerCoin = TRUE,
                         !.progress.coinsCollected = coins]
        p == [Standing(l0.goalX - topSpeed, BaseY(i), nowSeconds) EXCEPT
                 !.hasGunPower = TRUE, !.rings = coins, !.score = 10 * coins]
        w == UpdateTasks(UpdateBossReward(World(p, l1)))
    IN Sim(Playing(i, nowSeconds, acc), w.p, w.l, NewInput)

GoalFrames == 2
GoalEvents == 2
GoalTime == 60      \* seconds played before the goal is in reach

InitGoal ==
    \E i \in 0..(NumLevels - 1), acc \in {0, HalfDelta} :
      \E coins \in {0, coinTargets[i + 1] - 1, coinTargets[i + 1]} :
        LET m == AtGoal(i, coins, GoalTime * TU, acc) IN
        /\ eng = m.eng
        /\ player = m.player
        /\ level = m.level
        /\ input = m.input
        /\ twin = NoTwin
        /\ last = Env({"ArrowRight"}, {HalfDelta, TickDelta, SlowDelta},
                      GoalFrames, GoalEvents, 0)

NextGoal ==
    \/ \E code \in AllKeys : KeyDown(code)
    \/ \E code \in AllKeys : KeyUp(code)
    \/ \E d \in {HalfDelta, TickDelta, TwoTickDelta, SlowDelta} : Frame(d)

SpecGoal == InitGoal /\ [][NextGoal]_vars

\* Some tick of the accumulator loop entered with sim m moves the engine to
\* the next level although, at the end of that tick's level.update, a
\* mandatory task of the level is not in the completed set.
RECURSIVE UngatedAdvance(_)
UngatedAdvance(m) ==
    IF m.eng.accumulator < fixedDt THEN FALSE
    ELSE LET m1 == Step(m, fixedDt) IN
         \/ /\ m1.eng.levelIndex = m.eng.levelIndex + 1
            /\ ~areMandatoryTasksComplete(StepWorld(m, fixedDt).level)
         \/ UngatedAdvance([m1 EXCEPT !.eng.accumulator = @ - fixedDt])

LoopEntry(m, d) == [FrameStart(m, d) EXCEPT !.eng.accumulator = @ + Min(maxDt, d)]

\* C1: a tick advances the engine to the next level only if at its end the
\* player is at or past the goal, the boss is not alive and every mandatory
\* task of the level is completed; with a mandatory task uncompleted,
\* reaching the goal does not advance the level.
ExitIsGated ==
    [][\A d \in last.deltas :
         (last'.op = "frame" /\ last'.d = d /\ last'.playing)
            => ~UngatedAdvance(LoopEntry(Cur, d))]_vars

\* C7: a frame in the playing state with capped delta d and accumulator acc
\* runs exactly floor((acc + d) / fixedDt) ticks, at most 3, and leaves
\* acc' = acc + d - ticks * fixedDt with 0 <= acc' < fixedDt.
ClockIsExact ==
    (last.op = "frame" /\ last.playing) =>
       LET d == Min(maxDt, last.d) IN
       /\ last.ticks = (last.acc + d) \div fixedDt
       /\ last.ticks <= 3
       /\ eng.accumulator = last.acc + d - last.ticks * fixedDt
       /\ 0 <= eng.accumulator /\ eng.accumulator < fixedDt

\* The same, for the frames in which no tick resets the engine.
ClockIsExactWithoutReset ==
    (last.op = "frame" /\ last.playing
       /\ ~(last.pre.eng.levelIndex = NumLevels - 1 /\ eng.state = "title")) =>
       LET d == Min(maxDt, last.d) IN
       /\ last.ticks = (last.acc + d) \div fixedDt
       /\ last.ticks <= 3
       /\ eng.accumulator = last.acc + d - last.ticks * fixedDt
       /\ 0 <= eng.accumulator /\ eng.accumulator < fixedDt

(***************************************************************************)
(* Play on the last lives: the player, armed with the gun, has fallen into *)
(* the first pit of a level and is about to leave the world.               *)
(***************************************************************************)
\* The middle of the first pit (pitX1 + pitWidth / 2 of Level.reset).
PitMid(index) == Px(980 + (index % 5) * 30 + (180 + (index % 4) * 40) \div 2)

OverTime == 20      \* seconds played before the fall

LastLife(i, lives, acc) ==
    LET l == createLevel(i)
        p == [setSpawn(NewPlayer(PitMid(i), l.height + Px(190)), Px(SpawnX), Px(SpawnY))
                EXCEPT !.vy = terminalVel, !.lives = lives, !.hasGunPower = TRUE,
                       !.jumpsRemaining = 0]
    IN Sim(Playing(i, OverTime * TU, acc), p,
           [l EXCEPT !.progress.startTime = 0, !.progress.hasPowerCoin = TRUE],
           NewInput)

OverFrames == 2
OverEvents == 2
OverCommands == 1

InitOver ==
    \E lives \in 1..2, acc \in {0, HalfDelta} :
        LET m == LastLife(0, lives, acc) IN
        /\ eng = m.eng
        /\ player = m.player
        /\ level = m.level
        /\ input = m.input
        /\ twin = NoTwin
        /\ last = Env({"KeyF", "KeyR", "ArrowRight"}, {TickDelta, SlowDelta},
                      OverFrames, OverEvents, OverCommands)

SpecOver == InitOver /\ [][Next]_vars

\* C9: a frame whose ticks leave the player with 0 lives leaves the engine
\* in game over, and while the engine stays in game over (no _reset,
\* exitToMenu or replayLevel has cleared the flag) no step changes any field
\* of the player or anything in the level.
GameOverIsTerminal ==
    [][/\ (last'.op = "frame" /\ last'.ticks >= 1 /\ player'.lives <= 0)
             => eng'.gameOver
       /\ (eng.gameOver /\ eng'.gameOver) => (player' = player /\ level' = level)]_vars

\* A frame ran ticks with a key held while the game was over.
TicksWhileOver ==
    /\ last.op = "frame" /\ last.playing /\ last.ticks >= 1
    /\ last.pre.eng.gameOver /\ eng.gameOver
    /\ player.lives = 0
    /\ input.down # {}

\* C10: after replayLevel or exitToMenu has reset the level, the level is
\* the one a fresh createLevel builds: nothing created during the previous
\* play is in it and the task progress and the completed set are empty.
ResetIsWholesale ==
    (/\ last.op \in {"replayLevel", "exitToMenu"}
     /\ (last.pre.eng.state = "paused" \/ last.pre.eng.gameOver))
       => level = createLevel(eng.levelIndex)

\* The same, for the collections Level.reset assigns.
ResetRebuildsWhatItAssigns ==
    (/\ last.op \in {"replayLevel", "exitToMenu"}
     /\ (last.pre.eng.state = "paused" \/ last.pre.eng.gameOver))
       => [level EXCEPT !.bullets = <<>>, !.bossAttacks = <<>>, !.fruits = <<>>]
             = createLevel(eng.levelIndex)

(***************************************************************************)
(* Play under a box: the player stands on the first platform of a level,   *)
(* below its first coin box.                                               *)
(***************************************************************************)
BoxTime == 5       \* seconds played before the player is under the box

UnderBox(i, acc) ==
    LET l == createLevel(i) IN
    Sim(Playing(i, BoxTime * TU, acc),
        Standing(l.boxes[1].x + l.boxes[1].w \div 2, l.solids[3].y, BoxTime * TU),
        [l EXCEPT !.progress.startTime = 0],
        NewInput)

BoxFrames == 5
BoxEvents == 3

InitBox ==
    \E i \in 0..2, acc \in {0, HalfDelta} :
        LET m == UnderBox(i, acc) IN
        /\ eng = m.eng
        /\ player = m.player
        /\ level = m.level
        /\ input = m.input
        /\ twin = NoTwin
        /\ last = Env({"Space"}, {TickDelta, SlowDelta}, BoxFrames, BoxEvents, 0)

SpecBox == InitBox /\ [][NextGoal]_vars

\* The boxes of the level that are used.
UsedBoxes(l) == {k \in 1..Len(l.boxes) : l.boxes[k].used}

\* The number of coins a coin box of this level releases.
CoinsPerBox(l) == Max(1, 1 + (l.index % 3))

\* The player is moving up through the bottom edge of box k (the hit test
\* of Level.update is met).
HitsFromBelow(p, l, k) ==
    LET phb == getHitbox(p)
        box == l.boxes[k]
    IN /\ ~(phb.x + phb.w < box.x \/ phb.x > box.x + box.w)
       /\ p.vy < 0
       /\ phb.y - p.vy >= box.y + box.h
       /\ phb.y < box.y + box.h
       /\ phb.y + phb.h > box.y

\* C5: within one level instance a used box stays used, the coins of the
\* level grow exactly by the content of the coin boxes a frame has newly
\* marked used (a box spawns once, in the tick of its hit), and the box test
\* run again on a used box changes nothing.
BoxIsOneShot ==
    [][(level'.index = level.index /\ eng'.state = "playing")
         => /\ UsedBoxes(level) \subseteq UsedBoxes(level')
            /\ Len(level'.coins) = Len(level.coins)
                 + CoinsPerBox(level)
                   * Cardinality({k \in UsedBoxes(level') \ UsedBoxes(level) :
                                    level.boxes[k].type = "coin"})
            /\ \A k \in UsedBoxes(level) :
                 BoxStep(World(player, level), k, getHitbox(player))
                    = World(player, level)]_vars

\* The player passes upward through the bottom edge of a box it has
\* already used.
UsedBoxHitAgain ==
    \E k \in UsedBoxes(level) :
        /\ last.op = "frame" /\ last.ticks >= 1
        /\ Len(level.coins) > Len(createLevel(level.index).coins)
        /\ HitsFromBelow(player, level, k)

(***************************************************************************)
(* Two runs of the engine side by side: the first in eng, player, level    *)
(* and input, the second in twin.  Both receive every key event at the     *)
(* same simulated time; between events both simulate the same span of      *)
(* time, which their displays cut into frames differently.                 *)
(***************************************************************************)
\* _frame once per interval of ds, from the k-th on; n counts the ticks.
RECURSIVE FrameSeq(_, _, _, _), FrameSeqFrom(_, _, _, _)
FrameSeq(m, ds, k, n) ==
    IF k > Len(ds) THEN [m |-> m, ticks |-> n]
    ELSE FrameSeqFrom(FrameRun(m, ds[k]), ds, k, n)

FrameSeqFrom(r, ds, k, n) == FrameSeq(r.m, ds, k + 1, n + r.ticks)

PairTime == 5      \* seconds played before the runs are compared

\* Level 1 in play, the player standing at the spawn column.
Started(shield) ==
    Sim(Playing(0, PairTime * TU, 0),
        [Standing(Px(SpawnX), BaseY(0), PairTime * TU) EXCEPT !.hasShieldPower = shield],
        [createLevel(0) EXCEPT !.progress.startTime = 0,
                               !.progress.hasShieldCoin = shield],
        NewInput)

PairWindows == 3
PairEvents == 2

InitPair ==
    \E shield \in BOOLEAN, held \in {{}, {"ArrowRight"}} :
        LET m == [Started(shield) EXCEPT !.input.down = held] IN
        /\ eng = m.eng
        /\ player = m.player
        /\ level = m.level
        /\ input = m.input
        /\ twin = m
        /\ last = Env({"Space", "KeyE", "ArrowRight"}, {TickDelta},
                      PairWindows, PairEvents, 0)

PairKeyDown(code) ==
    /\ last.events > 0
    /\ code \in last.keys
    /\ code \notin input.down
    /\ input' = keydown(input, code)
    /\ twin' = [twin EXCEPT !.input = keydown(@, code)]
    /\ last' = [last EXCEPT !.op = "keydown", !.events = @ - 1, !.pre = Pre]
    /\ UNCHANGED <<eng, player, level>>

PairKeyUp(code) ==
    /\ last.events > 0
    /\ code \in input.down
    /\ input' = keyup(input, code)
    /\ twin' = [twin EXCEPT !.input = keyup(@, code)]
    /\ last' = [last EXCEPT !.op = "keyup", !.events = @ - 1, !.pre = Pre]
    /\ UNCHANGED <<eng, player, level>>

\* The variables after the first run rendered the frames of a and the
\* second those of b.
PairRendered(a, b) ==
    /\ Becomes(a.m)
    /\ twin' = b.m
    /\ last' = [last EXCEPT !.op = "frames", !.frames = @ - 1,
                            !.ticks = a.ticks, !.twinTicks = b.ticks, !.pre = Pre]

PairFrames(as, bs) ==
    /\ last.frames > 0
    /\ PairRendered(FrameSeq(Cur, as, 1, 0), FrameSeq(twin, bs, 1, 0))

\* The same frame in both runs.
Together == PairFrames(<<TickDelta>>, <<TickDelta>>)

\* One tick per frame against two ticks in one frame.
FineAndCoarse == PairFrames(<<TickDelta, TickDelta>>, <<TwoTickDelta>>)

\* One tick per frame against three ticks in one frame.
FineAndSlow == PairFrames(<<TickDelta, TickDelta, TickDelta>>, <<3 * TickDelta>>)

\* A frame without a tick and a frame with one, against one frame.
HalfAndWhole == PairFrames(<<HalfDelta, HalfDelta>>, <<TickDelta>>)

NextPair ==
    \/ \E code \in AllKeys : PairKeyDown(code)
    \/ \E code \in AllKeys : PairKeyUp(code)
    \/ Together
    \/ FineAndCoarse
    \/ FineAndSlow
    \/ HalfAndWhole

SpecPair == InitPair /\ [][NextPair]_vars

\* The fields of the player the runs are compared on.
PlayerView(p) ==
    [x |-> p.x, y |-> p.y, vx |-> p.vx, vy |-> p.vy, grounded |-> p.grounded,
     shieldActive |-> p.shieldActive, jumpsRemaining |-> p.jumpsRemaining]

\* C8: two runs with the same key events at the same simulated times, whose
\* frames group the ticks differently, have the same player position,
\* velocity, grounded flag, shield flag and jump count after the same
\* number of ticks.
RefreshRateIndependent ==
    (last.ticks = last.twinTicks /\ eng.timeSeconds = twin.eng.timeSeconds)
       => PlayerView(player) = PlayerView(twin.player)

\* The same, for runs that have received no key event since the start (a
\* key may be held down throughout).
RefreshRateIndependentUntouched ==
    (last.events = PairEvents) => PlayerView(player) = PlayerView(twin.player)


(***************************************************************************)
(* Jumping: level 1 in play, the player standing at the spawn column or    *)
(* just put back at the spawn point (80, 220), which is above the ground.  *)
(* last.jumps lists the jumps made since the player last stood on a solid: *)
(* "ground" for _doJump, "air" for _doDoubleJump.                          *)
(***************************************************************************)
\* What the buffered-jump block of Player.update does in the tick that
\* starts from sim m.
JumpKind(m) ==
    IF m.eng.gameOver THEN "none"
    ELSE IF BufferedJump(m.player, m.input, m.eng.timeSeconds).input.jumpBufferedUntil
               = m.input.jumpBufferedUntil
    THEN "none"
    ELSE IF m.player.grounded \/ m.eng.timeSeconds <= m.player.coyoteUntil
    THEN "ground"
    ELSE "air"

\* The jumps since the last landing, after a tick from sim m to sim m1.
JumpsAfter(js, m, m1) ==
    IF m1.player.grounded THEN <<>>
    ELSE IF JumpKind(m) = "none" THEN js
    ELSE Append(js, JumpKind(m))

\* The accumulator loop of _frame, following the jumps of its ticks.
RECURSIVE JumpLoop(_, _), JumpLoopFrom(_, _, _)
JumpLoop(m, js) ==
    IF m.eng.accumulator >= fixedDt
    THEN JumpLoopFrom(m, Step(m, fixedDt), js)
    ELSE js

JumpLoopFrom(m, m1, js) ==
    JumpLoop([m1 EXCEPT !.eng.accumulator = @ - fixedDt], JumpsAfter(js, m, m1))

\* The jumps since the last landing after a frame of interval d.
JumpsOfFrame(m, d, js) ==
    IF ~m.eng.settingsOpen /\ FrameStart(m, d).eng.state = "playing"
    THEN JumpLoop(LoopEntry(m, d), js)
    ELSE js

JumpFrames == 4
JumpEvents == 3

InitJump ==
    \E fresh \in BOOLEAN :
        LET m == Started(FALSE) IN
        /\ eng = m.eng
        /\ player = IF fresh THEN Restart(m.player) ELSE m.player
        /\ level = m.level
        /\ input = m.input
        /\ twin = NoTwin
        /\ last = Env({"Space", "KeyZ"}, {TickDelta},
                      JumpFrames, JumpEvents, 0)

\* The variables after a frame of interval d with result r and jumps js.
JumpRendered(r, d, js) ==
    /\ Becomes(r.m)
    /\ last' = [last EXCEPT !.op = "frame", !.frames = @ - 1, !.d = d,
                            !.ticks = r.ticks, !.playing = r.playing,
                            !.acc = r.acc, !.pre = Pre, !.jumps = js]

\* One requestAnimationFrame callback, the jumps of its ticks recorded.
JumpFrame(d) ==
    /\ last.frames > 0
    /\ d \in last.deltas
    /\ JumpRendered(FrameRun(Cur, d), d, JumpsOfFrame(Cur, d, last.jumps))
    /\ UNCHANGED twin

NextJump ==
    \/ \E code \in AllKeys : KeyDown(code)
    \/ \E code \in AllKeys : KeyUp(code)
    \/ \E d \in {TickDelta, TwoTickDelta} : JumpFrame(d)

SpecJump == InitJump /\ [][NextJump]_vars

\* The number of jumps of one kind in a list of jumps.
JumpCount(js, kind) == Cardinality({k \in 1..Len(js) : js[k] = kind})

\* C11: between two landings the player makes at most one ground (or
\* coyote) jump and at most one mid-air jump, and a mid-air jump only after
\* a ground jump that began the airtime.
JumpAllowance ==
    /\ JumpCount(last.jumps, "ground") <= 1
    /\ JumpCount(last.jumps, "air") <= 1
    /\ (JumpCount(last.jumps, "air") > 0 => last.jumps[1] = "ground")

\* A mid-air jump spends the whole allowance: the tick that makes it leaves
\* the player rising with no jump remaining.
AirJumpSpendsAllowance ==
    [][(last'.op = "frame" /\ last'.ticks = 1
          /\ Len(last'.jumps) > Len(last.jumps)
          /\ last'.jumps[Len(last'.jumps)] = "air")
        => player'.jumpsRemaining = 0 /\ player'.vy < 0 /\ ~player'.grounded]_vars


(***************************************************************************)
(* The task gate on its own: every level with every set of its tasks       *)
(* completed, further tasks being completed one at a time and the level    *)
(* being reset.                                                            *)
(***************************************************************************)
TaskIds(l) == {l.tasks[k].id : k \in 1..Len(l.tasks)}
MandatoryIds(l) == {l.tasks[k].id : k \in {j \in 1..Len(l.tasks) : l.tasks[j].mandatory}}

TaskEvents == 3

InitTasks ==
    \E i \in 0..(NumLevels - 1) :
      \E done \in SUBSET TaskIds(createLevel(i)) :
        /\ eng = Playing(i, 0, 0)
        /\ player = Standing(Px(SpawnX), BaseY(i), 0)
        /\ level = [createLevel(i) EXCEPT !.completedTasks = done]
        /\ input = NewInput
        /\ twin = NoTwin
        /\ last = Env({}, {}, 0, TaskEvents, 1)

\* The completion block of Level.update for task k, its condition met.
CompleteTask(k) ==
    /\ last.events > 0
    /\ k \in 1..Len(level.tasks)
    /\ level.tasks[k].id \notin level.completedTasks
    /\ level' = [level EXCEPT !.completedTasks = @ \cup {level.tasks[k].id}]
    /\ player' = IF ~level.tasks[k].mandatory
                 THEN [player EXCEPT !.rings = @ + 5] ELSE player
    /\ last' = [last EXCEPT !.op = "completeTask", !.events = @ - 1, !.pre = Pre]
    /\ UNCHANGED <<eng, input, twin>>

\* Level.reset
ResetLevel ==
    /\ last.ui > 0
    /\ level' = reset(level)
    /\ last' = [last EXCEPT !.op = "reset", !.ui = @ - 1, !.pre = Pre]
    /\ UNCHANGED <<eng, player, input, twin>>

NextTasks ==
    \/ \E k \in 1..4 : CompleteTask(k)
    \/ ResetLevel

SpecTasks == InitTasks /\ [][NextTasks]_vars

\* C12: areMandatoryTasksComplete() is true exactly when every mandatory
\* task id of the list is in the completed set, and putting a non-mandatory
\* task id into the completed set or taking one out of it does not change
\* the result.
MandatoryGate ==
    /\ areMandatoryTasksComplete(level) <=> (MandatoryIds(level) \subseteq level.completedTasks)
    /\ \A id \in TaskIds(level) \ MandatoryIds(level) :
         /\ areMandatoryTasksComplete([level EXCEPT !.completedTasks = @ \cup {id}])
              = areMandatoryTasksComplete(level)
         /\ areMandatoryTasksComplete([level EXCEPT !.completedTasks = @ \ {id}])
              = areMandatoryTasksComplete(level)

\* The last mandatory task of a level with optional tasks was completed
\* while an optional one is still open: the gate is open.
GateOpensWithOptionalOpen ==
    /\ last.op = "completeTask"
    /\ areMandatoryTasksComplete(level)
    /\ MandatoryIds(level) # {}
    /\ (TaskIds(level) \ MandatoryIds(level)) \ level.completedTasks # {}
    /\ (TaskIds(level) \ MandatoryIds(level)) \cap level.completedTasks # {}


(***************************************************************************)
(* Play at the bounds of the world: the player next to the left or right   *)
(* edge of a level, standing on the ground or in the air above it, and in  *)
(* the pit against one of its walls.                                       *)
(***************************************************************************)
\* Places of the player: x, bottom y and whether it stands there.
EdgePlaces(l) ==
    {[x |-> Px(24), y |-> l.solids[1].y, grounded |-> TRUE],
     [x |-> Px(24), y |-> l.solids[1].y - Px(30), grounded |-> FALSE],
     [x |-> l.width - Px(24), y |-> l.solids[2].y, grounded |-> TRUE],
     [x |-> l.width - Px(24), y |-> l.solids[2].y - Px(30), grounded |-> FALSE],
     [x |-> l.solids[1].w + Px(10), y |-> l.solids[1].y + Px(100), grounded |-> FALSE],
     [x |-> l.solids[2].x - Px(10), y |-> l.solids[2].y + Px(100), grounded |-> FALSE]}

AtEdge(i, place, big) ==
    LET l == createLevel(i) IN
    Sim(Playing(i, PairTime * TU, 0),
        [Standing(place.x, place.y, PairTime * TU) EXCEPT
            !.grounded = place.grounded,
            !.coyoteUntil = IF place.grounded THEN @ ELSE 0,
            !.isBig = big, !.rings = IF big THEN 1 ELSE 0],
        [l EXCEPT !.progress.startTime = 0],
        NewInput)

EdgeFrames == 3
EdgeEvents == 2

InitEdge ==
    \E i \in {0, NumLevels - 1}, big \in BOOLEAN :
      \E place \in EdgePlaces(createLevel(i)) :
        LET m == AtEdge(i, place, big) IN
        /\ eng = m.eng
        /\ player = m.player
        /\ level = m.level
        /\ input = m.input
        /\ twin = NoTwin
        /\ last = Env({"ArrowLeft", "ArrowRight", "ArrowDown"}, {TickDelta, SlowDelta},
                      EdgeFrames, EdgeEvents, 0)

SpecEdge == InitEdge /\ [][NextGoal]_vars

InWorld(p, l) == Px(20) <= p.x /\ p.x <= l.width - Px(20)

\* Every tick of the accumulator loop entered with sim m ends with the
\* player inside the world.
RECURSIVE EveryTickInWorld(_), EveryTickInWorldFrom(_)
EveryTickInWorld(m) ==
    IF m.eng.accumulator < fixedDt THEN TRUE
    ELSE EveryTickInWorldFrom(Step(m, fixedDt))

EveryTickInWorldFrom(m1) ==
    /\ InWorld(m1.player, m1.level)
    /\ EveryTickInWorld([m1 EXCEPT !.eng.accumulator = @ - fixedDt])

\* C14: at the end of every tick the player's x is at least 20 and at most
\* level.width - 20, whatever the push-out of that tick did.
StaysInWorld ==
    [][\A d \in last.deltas :
         (last'.op = "frame" /\ last'.d = d /\ last'.playing)
            => /\ EveryTickInWorld(LoopEntry(Cur, d))
               /\ InWorld(player', level')]_vars

\* A tick carried the player past an edge of the world and left it on the
\* bound.
HeldAtEdge ==
    /\ last.op = "frame" /\ last.ticks = 1
    /\ ~InWorld([x |-> last.pre.player.x + player.vx], level)
    /\ player.x \in {Px(20), level.width - Px(20)}


(***************************************************************************)
(* Play at a magnet pickup: the player stands a step to the left of the    *)
(* second magnet of a level, the first one collected on the way there.     *)
(***************************************************************************)
\* Time left of the first magnet, in 1/TU s.
MagnetLeft == {0, fixedDt, 4 * TU}

AtMagnet(i, left, acc) ==
    LET l == createLevel(i) IN
    Sim(Playing(i, GoalTime * TU, acc),
        [Standing(l.magnetPickups[2].x - Px(32), BaseY(i), GoalTime * TU) EXCEPT
            !.magnetTimer = left],
        [l EXCEPT !.progress.startTime = 0, !.magnetPickups = Tail(@)],
        NewInput)

MagnetFrames == 3
MagnetEvents == 2

InitMagnet ==
    \E i \in {0, 3}, left \in MagnetLeft, acc \in {0, HalfDelta} :
        LET m == AtMagnet(i, left, acc) IN
        /\ eng = m.eng
        /\ player = m.player
        /\ level = m.level
        /\ input = m.input
        /\ twin = NoTwin
        /\ last = Env({"ArrowRight"}, {TickDelta, SlowDelta},
                      MagnetFrames, MagnetEvents, 0)

SpecMagnet == InitMagnet /\ [][NextGoal]_vars

\* In every tick of the accumulator loop entered with sim m, the timer is
\* at most the full duration afterwards, and exactly the full duration if
\* the tick collected a magnet pickup.
RECURSIVE MagnetRefills(_), MagnetRefillsFrom(_, _)
MagnetRefills(m) ==
    IF m.eng.accumulator < fixedDt THEN TRUE
    ELSE MagnetRefillsFrom(m, Step(m, fixedDt))

MagnetRefillsFrom(m, m1) ==
    /\ m1.player.magnetTimer <= MagnetDuration * TU
    /\ (Len(m1.level.magnetPickups) < Len(m.level.magnetPickups)
          /\ m1.player.lives = m.player.lives)
       => m1.player.magnetTimer = MagnetDuration * TU
    /\ MagnetRefills([m1 EXCEPT !.eng.accumulator = @ - fixedDt])

\* C15: a magnet pickup sets magnetTimer to the full duration whatever time
\* was left of an earlier one, and the timer never exceeds the full
\* duration.
MagnetDoesNotStack ==
    [][/\ player'.magnetTimer <= MagnetDuration * TU
       /\ \A d \in last.deltas :
            (last'.op = "frame" /\ last'.d = d /\ last'.playing)
               => MagnetRefills(LoopEntry(Cur, d))]_vars

\* The second magnet was collected in a one-tick frame while time of the
\* first was left, and the timer shows the full duration.
SecondMagnetCollected ==
    /\ last.op = "frame" /\ last.ticks = 1
    /\ last.pre.player.magnetTimer > fixedDt
    /\ Len(level.magnetPickups) = Len(createLevel(eng.levelIndex).magnetPickups) - 2
    /\ player.magnetTimer = MagnetDuration * TU


(***************************************************************************)
(* The combo score on its own: a first kill, ticks of Player.update, and a *)
(* second kill.  last.kills holds the base scores of the two kills (100    *)
(* for a stomp, 80 for a bullet), last.ticks the ticks since the first     *)
(* kill, last.pre the player before the first kill.                        *)
(***************************************************************************)
ComboTicks == 95

\* The combo window in ticks.
ComboWindow == ((TU * 3) \div 2) \div fixedDt

ComboPlayers ==
    {NewPlayer(Px(SpawnX), Px(SpawnY)),
     [NewPlayer(Px(SpawnX), Px(SpawnY)) EXCEPT
         !.score = 250, !.comboCount = 2, !.comboTimer = TU]}

InitCombo ==
    \E p \in ComboPlayers, b1 \in {80, 100}, b2 \in {80, 100} :
        /\ eng = Playing(0, 0, 0)
        /\ player = p
        /\ level = NewLevel(0)
        /\ input = NewInput
        /\ twin = NoTwin
        /\ last = [Env({}, {}, ComboTicks, 2, 0) EXCEPT !.kills = <<b1, b2>>]

\* The first kill (the stomp or bullet block of Level.update).
FirstKill ==
    /\ last.events = 2
    /\ player' = addComboScore(player, last.kills[1])
    /\ last' = [last EXCEPT !.op = "kill", !.events = 1, !.ticks = 0, !.pre = Pre]
    /\ UNCHANGED <<eng, level, input, twin>>

\* A tick of Player.update in which nothing is killed or collected.
ComboTick ==
    /\ last.events = 1
    /\ last.frames > 0
    /\ player' = UpdateTimers(player, fixedDt)
    /\ last' = [last EXCEPT !.op = "tick", !.frames = @ - 1, !.ticks = @ + 1]
    /\ UNCHANGED <<eng, level, input, twin>>

SecondKill ==
    /\ last.events = 1
    /\ player' = addComboScore(player, last.kills[2])
    /\ last' = [last EXCEPT !.op = "kill2", !.events = 0]
    /\ UNCHANGED <<eng, level, input, twin>>

NextCombo == FirstKill \/ ComboTick \/ SecondKill

SpecCombo == InitCombo /\ [][NextCombo]_vars

\* n ticks of the timers of Player.update (a tick that changes nothing
\* leaves nothing for later ticks to change).
RECURSIVE Idle(_, _)
Idle(p, n) ==
    IF n = 0 \/ UpdateTimers(p, fixedDt) = p THEN p
    ELSE Idle(UpdateTimers(p, fixedDt), n - 1)

\* The player after two kills with base scores ks, gap ticks apart.
TwoKills(p, ks, gap) == addComboScore(Idle(addComboScore(p, ks[1]), gap), ks[2])

\* C16: from the same player, two kills fewer ticks apart than the combo
\* window give a strictly greater score than the same two kills more than
\* the window apart, the second of which scores its base only.
ComboDecays ==
    (last.op = "kill2" /\ last.ticks < ComboWindow) =>
       \A gap \in (ComboWindow + 1)..ComboTicks :
          /\ player.score > TwoKills(last.pre.player, last.kills, gap).score
          /\ TwoKills(last.pre.player, last.kills, gap).score
               = addComboScore(last.pre.player, last.kills[1]).score + last.kills[2]

\* The second kill came in the last tick of the window and was multiplied.
KilledWithinWindow ==
    /\ last.op = "kill2" /\ last.ticks = ComboWindow - 1
    /\ player.comboCount = 2
    /\ player.score = last.kills[1] + (3 * last.kills[2]) \div 2


(***************************************************************************)
(* Play at the boss: the player, armed with the gun, stands a few steps    *)
(* left of the boss, walks into it, or falls onto its top.                 *)
(***************************************************************************)
\* Places of the player relative to boss b: x, bottom y, fall speed.
BossPlaces(b) ==
    {[x |-> b.x - Px(90), y |-> b.y, vy |-> 0, grounded |-> TRUE],
     [x |-> b.x - Px(60), y |-> b.y, vy |-> 0, grounded |-> TRUE],
     [x |-> b.x, y |-> b.y - b.h - Px(2), vy |-> Px(6), grounded |-> FALSE]}

AtBoss(i, hp, place) ==
    LET l == createLevel(i) IN
    Sim(Playing(i, GoalTime * TU, 0),
        [Standing(place.x, place.y, GoalTime * TU) EXCEPT
            !.vy = place.vy, !.grounded = place.grounded,
            !.coyoteUntil = IF place.grounded THEN @ ELSE 0,
            !.hasGunPower = TRUE, !.rings = 3],
        [l EXCEPT !.boss.hp = hp, !.boxes[5].used = TRUE,
                  !.progress.startTime = 0, !.progress.hasPowerCoin = TRUE],
        NewInput)

BossFrames == 4
BossEvents == 2

InitBoss ==
    \E i \in {0, NumLevels - 1}, hp \in {1, 2, 10} :
      \E place \in BossPlaces(createLevel(i).boss) :
        LET m == AtBoss(i, hp, place) IN
        /\ eng = m.eng
        /\ player = m.player
        /\ level = m.level
        /\ input = m.input
        /\ twin = NoTwin
        /\ last = Env({"KeyF", "ArrowRight"}, {TickDelta, SlowDelta},
                      BossFrames, BossEvents, 0)

SpecBoss == InitBoss /\ [][NextGoal]_vars

\* The bullets of level l that, moved by this tick, overlap the box of boss b.
BulletsOnBoss(l, b) ==
    {k \in 1..Len(l.bullets) :
        aabbIntersects([x |-> l.bullets[k].x + l.bullets[k].vx - Px(4),
                        y |-> l.bullets[k].y - Px(4), w |-> Px(8), h |-> Px(8)],
                       BossAabb(b))}

\* Exactly one bullet of level l, still alive after this tick's move,
\* overlaps the boss of l1, and it overlaps no enemy of l1.
LoneBulletOnBoss(l, l1) ==
    /\ Cardinality(BulletsOnBoss(l, l1.boss)) = 1
    /\ \A k \in BulletsOnBoss(l, l1.boss) :
         /\ l.bullets[k].life - fixedDt > 0
         /\ \A j \in 1..Len(l1.enemies) :
              ~aabbIntersects([x |-> l.bullets[k].x + l.bullets[k].vx - Px(4),
                               y |-> l.bullets[k].y - Px(4), w |-> Px(8), h |-> Px(8)],
                              EnemyAabb(l1.enemies[j]))

\* The stomp test of the boss contact: player p comes down onto the top of
\* boss b.
StompsBoss(p, b) ==
    LET phb == getHitbox(p) IN
    /\ b.alive
    /\ aabbIntersects(phb, BossAabb(b))
    /\ p.vy > 0
    /\ phb.y + phb.h - p.vy <= BossAabb(b).y + Px(8)

\* A tick from sim m to sim m1, m0 being the sim between player.update and
\* level.update: the boss loses hit points to overlapping bullets only, at
\* most one for each, and a stomp bounces the player and does nothing else
\* to it.
BossTick(m, m0, m1) ==
    (m1.eng.levelIndex = m.eng.levelIndex /\ m1.eng.state = "playing"
       /\ ~m.eng.gameOver /\ m.level.boss.present)
    => /\ m1.level.boss.hp <= m.level.boss.hp
       /\ m.level.boss.hp - m1.level.boss.hp
            <= Cardinality(BulletsOnBoss(m0.level, m1.level.boss))
       /\ (m1.level.boss.hp < m.level.boss.hp) => m.level.boss.alive
       /\ (m.level.boss.alive /\ LoneBulletOnBoss(m0.level, m1.level))
            => m1.level.boss.hp = m.level.boss.hp - 1
       /\ StompsBoss(m0.player, m1.level.boss)
            => /\ BulletsOnBoss(m0.level, m1.level.boss) = {}
                    => m1.level.boss = [m.level.boss EXCEPT
                                           !.x = m1.level.boss.x,
                                           !.dir = m1.level.boss.dir,
                                           !.attackCooldown = m1.level.boss.attackCooldown]
               /\ m1.player = [m0.player EXCEPT !.vy = -Px(5), !.grounded = FALSE]

RECURSIVE BossTicks(_), BossTicksFrom(_, _, _)
BossTicks(m) ==
    IF m.eng.accumulator < fixedDt THEN TRUE
    ELSE BossTicksFrom(m, UpdatePlayer(Shoot(m), fixedDt), Step(m, fixedDt))

BossTicksFrom(m, m0, m1) ==
    /\ BossTick(m, m0, m1)
    /\ BossTicks([m1 EXCEPT !.eng.accumulator = @ - fixedDt])

\* C17: the hit points of the boss go down only in a tick in which a bullet
\* of the player overlaps the living boss, by one for a bullet; a stomp on
\* the boss leaves its hit points alone and only bounces the player.
BossHurtByBulletsOnly ==
    [][\A d \in last.deltas :
         (last'.op = "frame" /\ last'.d = d /\ last'.playing)
            => BossTicks(LoopEntry(Cur, d))]_vars

\* The player came down on the boss in a one-tick frame and was bounced,
\* the boss keeping its hit points.
BossStomped ==
    /\ last.op = "frame" /\ last.ticks = 1
    /\ last.pre.player.vy > 0 /\ ~last.pre.player.grounded
    /\ player.vy = -Px(5)
    /\ level.boss.alive
    /\ level.boss.hp \in {1, 2, 10}
    /\ player.rings = last.pre.player.rings


(***************************************************************************)
(* Edge-triggered keys: level 1 in play, the player standing at the spawn  *)
(* column with the gun and the shield power, frames of every length.       *)
(***************************************************************************)
PressFrames == 3
PressEvents == 2

InitPress ==
    \E acc \in {0, HalfDelta}, up \in BOOLEAN :
        LET m == Started(TRUE) IN
        /\ eng = [m.eng EXCEPT !.accumulator = acc]
        /\ player = [m.player EXCEPT !.hasGunPower = TRUE, !.shieldActive = up]
        /\ level = [m.level EXCEPT !.progress.hasPowerCoin = TRUE]
        /\ input = m.input
        /\ twin = NoTwin
        /\ last = Env({"KeyE", "KeyF"}, {HalfDelta, TickDelta, TwoTickDelta, SlowDelta},
                      PressFrames, PressEvents, 0)

SpecPress == InitPress /\ [][NextGoal]_vars

\* C18: a press of the shield key is seen by exactly one tick, so the frame
\* that follows it toggles shieldActive exactly once, and a press of the
\* shoot key fires exactly one bullet, whether that frame runs no tick, one
\* tick or several.
PressActsOnce ==
    [][(last'.op = "frame" /\ last'.playing /\ player'.lives = player.lives)
         => /\ (anyJustPressed(input, "shield") /\ player.hasShieldPower)
                 => player'.shieldActive = ~player.shieldActive
            /\ (anyJustPressed(input, "shoot") /\ player.hasGunPower
                  /\ player.gunCooldown = 0)
                 => Len(level'.bullets) = Len(level.bullets) + 1]_vars

\* The same, for the frames that run exactly one tick.
PressActsOnceInOneTickFrames ==
    [][(last'.op = "frame" /\ last'.playing /\ player'.lives = player.lives
          /\ last'.ticks = 1)
         => /\ (anyJustPressed(input, "shield") /\ player.hasShieldPower)
                 => player'.shieldActive = ~player.shieldActive
            /\ (anyJustPressed(input, "shoot") /\ player.hasGunPower
                  /\ player.gunCooldown = 0)
                 => Len(level'.bullets) = Len(level.bullets) + 1]_vars


(***************************************************************************)
(* Falling out of the world: the player drops through the pit of a level   *)
(* with the shield power, holding rings or grown or neither, while the     *)
(* shield key is pressed and released at will and frames keep coming.      *)
(* Below the level no solid, pickup or hostile is in reach and no jump key *)
(* is used, so a frame's effect on the player depends on neither the depth *)
(* already fallen, the clock, nor the patrols of the level: Sunk keeps the *)
(* depth at FallFloor, the clock and the level where they were, which      *)
(* makes the behaviours of the endless fall finitely many states.          *)
(***************************************************************************)
FallLives == 3
FallFloorPx == 400     \* depth below level.height at which the fall is kept

FallFloor(l) == l.height + Px(FallFloorPx)

Sinking(i, up, rings, big) ==
    LET m == LastLife(i, FallLives, 0) IN
    [m EXCEPT !.player.hasShieldPower = TRUE, !.player.shieldActive = up,
              !.player.rings = rings, !.player.isBig = big]

Sunk(m, m0) ==
    [m EXCEPT !.player.y = Min(@, FallFloor(m0.level)),
              !.eng.timeSeconds = m0.eng.timeSeconds,
              !.level = m0.level]

InitFall ==
    \E up \in BOOLEAN, rings \in {0}, big \in {FALSE} :
        LET m == Sinking(0, up, rings, big) IN
        /\ eng = m.eng
        /\ player = m.player
        /\ level = m.level
        /\ input = m.input
        /\ twin = NoTwin
        /\ last = Env({"KeyE"}, {TickDelta}, 0, 0, 0)

\* keydown and keyup of the shield key, as often as the player likes.
FallKeyDown(code) ==
    /\ code \in last.keys
    /\ code \notin input.down
    /\ input' = keydown(input, code)
    /\ last' = [last EXCEPT !.op = "keydown", !.pre = Pre]
    /\ UNCHANGED <<eng, player, level, twin>>

FallKeyUp(code) ==
    /\ code \in input.down
    /\ input' = keyup(input, code)
    /\ last' = [last EXCEPT !.op = "keyup", !.pre = Pre]
    /\ UNCHANGED <<eng, player, level, twin>>

\* The variables after a frame of interval d with result r, begun in m0.
FallRendered(r, d, m0) ==
    /\ Becomes(Sunk(r.m, m0))
    /\ last' = [last EXCEPT !.op = "frame", !.d = d, !.ticks = r.ticks,
                            !.playing = r.playing, !.acc = r.acc, !.pre = Pre,
                            !.beat = 1 - @]

\* One requestAnimationFrame callback of the falling game.
FallFrame(d) ==
    /\ d \in last.deltas
    /\ FallRendered(FrameRun(Cur, d), d, Cur)
    /\ UNCHANGED twin

FallFrames == \E d \in {TickDelta} : FallFrame(d)

NextFall ==
    \/ \E code \in {"KeyE"} : FallKeyDown(code)
    \/ \E code \in {"KeyE"} : FallKeyUp(code)
    \/ FallFrames

SpecFall == InitFall /\ [][NextFall]_vars

\* What a frame of the falling game writes into last. Only FallFrame makes
\* such a step, and FallFrame is enabled in every state and always turns
\* the beat, so fairness of FrameRecorded is fairness of the frame callback.
FrameRecorded ==
    \E d \in last.deltas, ticks \in 0..1, playing \in BOOLEAN :
        last' = [last EXCEPT !.op = "frame", !.d = d, !.ticks = ticks,
                             !.playing = playing, !.acc = 0, !.pre = Pre,
                             !.beat = 1 - @]

\* The browser keeps calling the frame callback: requestAnimationFrame is
\* re-armed at the end of every callback.
SpecFallFair == SpecFall /\ WF_last(FrameRecorded)

BelowBound == player.y > level.height + Px(200)

\* C19: a player below the bottom bound of the level is, under continued
\* ticks and whatever the shield key does, eventually put back at the spawn
\* point with a life lost.
FallEnds == BelowBound ~> (player.lives < FallLives)


\* The fall of SpecFall beside the same fall played without Sunk: twin is
\* the game as the code runs it, its depth, clock and level moving on, fed
\* the same keys and frames, for FallRunFrames frames.
FallRunFrames == 16

InitFallRun ==
    \E up \in BOOLEAN, rings \in {0}, big \in {FALSE} :
        LET m == Sinking(0, up, rings, big) IN
        /\ eng = m.eng
        /\ player = m.player
        /\ level = m.level
        /\ input = m.input
        /\ twin = m
        /\ last = Env({"KeyE"}, {TickDelta}, FallRunFrames, 0, 0)

FallRunKeyDown(code) ==
    /\ code \in last.keys
    /\ code \notin input.down
    /\ input' = keydown(input, code)
    /\ twin' = [twin EXCEPT !.input = keydown(twin.input, code)]
    /\ last' = [last EXCEPT !.op = "keydown", !.pre = Pre]
    /\ UNCHANGED <<eng, player, level>>

FallRunKeyUp(code) ==
    /\ code \in input.down
    /\ input' = keyup(input, code)
    /\ twin' = [twin EXCEPT !.input = keyup(twin.input, code)]
    /\ last' = [last EXCEPT !.op = "keyup", !.pre = Pre]
    /\ UNCHANGED <<eng, player, level>>

FallRunFrame(d) ==
    /\ last.frames > 0
    /\ d \in last.deltas
    /\ Becomes(Sunk(FrameRun(Cur, d).m, Cur))
    /\ twin' = FrameRun(twin, d).m
    /\ last' = [last EXCEPT !.op = "frame", !.frames = @ - 1, !.d = d, !.pre = Pre]

NextFallRun ==
    \/ \E code \in {"KeyE"} : FallRunKeyDown(code)
    \/ \E code \in {"KeyE"} : FallRunKeyUp(code)
    \/ \E d \in {TickDelta} : FallRunFrame(d)

SpecFallRun == InitFallRun /\ [][NextFallRun]_vars

\* Sunk loses nothing the fall depends on: but for the depth kept at
\* FallFloor, the clock and the level, the two games agree.
SunkIsExact ==
    /\ player = [twin.player EXCEPT !.y = Min(@, FallFloor(level))]
    /\ input = twin.input
    /\ eng = [twin.eng EXCEPT !.timeSeconds = eng.timeSeconds]

\* In the game as the code runs it the player is FallRunFrames ticks into
\* the fall, far below the bound, and has lost no life.
StillFalling ==
    /\ last.frames = 0
    /\ twin.player.y > twin.level.height + Px(FallFloorPx)
    /\ twin.player.lives = FallLives


(***************************************************************************)
(* Knockback: the boss harness again, the player holding rings beside the  *)
(* boss or walking into it.                                                *)
(***************************************************************************)
\* The x-positions of the hostiles that touch player p in the tick that
\* leads from level l0 to level l1 other than by a stomp: living enemies,
\* the living boss, and the boss attacks in flight after their move.
HostilesTouching(p, l0, l1) ==
    LET phb == getHitbox(p) IN
    {l1.enemies[k].x : k \in {j \in 1..Len(l1.enemies) :
        /\ l1.enemies[j].alive
        /\ aabbIntersects(phb, EnemyAabb(l1.enemies[j]))}}
    \cup {l1.boss.x : b \in {c \in {l1.boss} :
        /\ c.present /\ c.alive
        /\ aabbIntersects(phb, BossAabb(c))
        /\ ~StompsBoss(p, c)}}
    \cup {MoveAttack(l0.bossAttacks[k], fixedDt).x :
            k \in {j \in 1..Len(l0.bossAttacks) :
              LET atk == MoveAttack(l0.bossAttacks[j], fixedDt) IN
              /\ atk.life > 0
              /\ aabbIntersects(phb, [x |-> atk.x - atk.r, y |-> atk.y - atk.r,
                                      w |-> atk.r * 2, h |-> atk.r * 2])}}

\* level.update of the tick took the rings or the growth of player p0,
\* leaving player p1 knocked back.
KnockedBack(p0, p1) ==
    /\ p0.invuln = 0 /\ p1.invuln > 0
    /\ p1.lives = p0.lives
    /\ (p0.rings > 0 /\ p1.rings = 0) \/ (p0.rings = 0 /\ p0.isBig /\ ~p1.isBig)

\* Velocity vx carries a player at x away from a hostile at hx.
Away(vx, x, hx) == IF x < hx THEN vx < 0 ELSE vx > 0

RECURSIVE KnockTicks(_), KnockTicksFrom(_, _, _)
KnockTicks(m) ==
    IF m.eng.accumulator < fixedDt THEN TRUE
    ELSE KnockTicksFrom(m, UpdatePlayer(Shoot(m), fixedDt), Step(m, fixedDt))

KnockTicksFrom(m, m0, m1) ==
    /\ (KnockedBack(m0.player, m1.player)
          /\ HostilesTouching(m0.player, m0.level, m1.level) # {})
         => \E hx \in HostilesTouching(m0.player, m0.level, m1.level) :
                Away(m1.player.vx, m0.player.x, hx)
    /\ KnockTicks([m1 EXCEPT !.eng.accumulator = @ - fixedDt])

\* C20: in a tick in which the touch of an enemy, the boss or a boss attack
\* costs the player its rings or its growth, the knockback velocity vx that
\* takeHit sets points away from the x-position of that hostile: vx < 0
\* when the player is left of it (player.x < hostile.x), vx > 0 otherwise.
KnockbackPointsAway ==
    [][\A d \in last.deltas :
         (last'.op = "frame" /\ last'.d = d /\ last'.playing)
            => KnockTicks(LoopEntry(Cur, d))]_vars

RECURSIVE TowardTicks(_), TowardTicksFrom(_, _, _)
TowardTicks(m) ==
    IF m.eng.accumulator < fixedDt THEN TRUE
    ELSE TowardTicksFrom(m, UpdatePlayer(Shoot(m), fixedDt), Step(m, fixedDt))

TowardTicksFrom(m, m0, m1) ==
    /\ (KnockedBack(m0.player, m1.player)
          /\ HostilesTouching(m0.player, m0.level, m1.level) # {})
         => \E hx \in HostilesTouching(m0.player, m0.level, m1.level) :
                Away(-m1.player.vx, m0.player.x, hx)
    /\ TowardTicks([m1 EXCEPT !.eng.accumulator = @ - fixedDt])

\* What the code does instead: the knockback velocity points at the hostile.
KnockbackPointsAtHostile ==
    [][\A d \in last.deltas :
         (last'.op = "frame" /\ last'.d = d /\ last'.playing)
            => TowardTicks(LoopEntry(Cur, d))]_vars


(***************************************************************************)
(* Horizontal control, in the boss harness: the player is knocked back by  *)
(* the boss with ArrowRight held or released.                              *)
(***************************************************************************)
\* The signed top speed the held direction keys ask for.
HeldSpeed(inp) ==
    IF anyDown(inp, "left") = anyDown(inp, "right") THEN 0
    ELSE IF anyDown(inp, "left") THEN -topSpeed ELSE topSpeed

\* Player.update of a tick begun in sim m, up to the integration of the
\* position, before _collideWithLevel.
BeforeCollide(m, dt) ==
    LET j == BufferedJump(ToggleShield(UpdateTimers(
                 [m.player EXCEPT !.justLaunchedSpring = FALSE], dt), m.input),
                 m.input, m.eng.timeSeconds)
    IN Integrate(Fall(Run(ReleaseJump(j.p, m.input), anyDown(m.input, "left"),
                          anyDown(m.input, "right"), anyDown(m.input, "down"))))

\* A tick from sim m (after the shot) to sim m0 (after player.update): the
\* position is integrated with the speed the held keys ask for, whatever
\* vx the tick began with.
HorizontalTick(m, q, m0) ==
    /\ q.vx = HeldSpeed(m.input)
    /\ q.x = m.player.x + HeldSpeed(m.input)
    /\ m0.player = collideWithLevel(q, m.level, m.eng.timeSeconds)

RECURSIVE HorizontalTicks(_), HorizontalTicksFrom(_, _, _)
HorizontalTicks(m) ==
    IF m.eng.accumulator < fixedDt \/ m.eng.gameOver THEN TRUE
    ELSE HorizontalTicksFrom(Shoot(m), UpdatePlayer(Shoot(m), fixedDt), Step(m, fixedDt))

HorizontalTicksFrom(ms, m0, m1) ==
    /\ HorizontalTick(ms, BeforeCollide(ms, fixedDt), m0)
    /\ HorizontalTicks([m1 EXCEPT !.eng.accumulator = @ - fixedDt])

\* C21: in every tick the player's x is integrated with exactly -topSpeed,
\* 0 or +topSpeed as the held left and right keys say (one held: the signed
\* top speed; none or both: 0), grounded, airborne or rolling alike; the vx
\* a knockback or a spring left in the tick before adds nothing.
InstantResponse ==
    [][\A d \in last.deltas :
         (last'.op = "frame" /\ last'.d = d /\ last'.playing)
            => HorizontalTicks(LoopEntry(Cur, d))]_vars

\* A one-tick frame began with the knockback velocity of a hit and no
\* direction key held, and the player stayed in its column.
KnockbackGone ==
    /\ last.op = "frame" /\ last.ticks = 1 /\ last.playing
    /\ last.pre.player.vx \notin {-topSpeed, 0, topSpeed}
    /\ last.pre.player.invuln > 0
    /\ input.down = {}
    /\ player.x = last.pre.player.x
    /\ player.vx = 0


(***************************************************************************)
(* Springs: level 1 in play, the player on the ledge that carries the      *)
(* first spring, just left of it, or in the air above the first or the     *)
(* fourth spring (which floats above the ground) and coming down.          *)
(***************************************************************************)
SpringPlaces(l) ==
    {[x |-> l.springs[1].x - Px(22), y |-> l.springs[1].y, vy |-> 0, grounded |-> TRUE],
     [x |-> l.springs[1].x, y |-> l.springs[1].y - Px(30), vy |-> Px(4),
      grounded |-> FALSE],
     [x |-> l.springs[4].x, y |-> l.springs[4].y - Px(30), vy |-> Px(4),
      grounded |-> FALSE]}

AtSpring(i, place) ==
    LET l == createLevel(i) IN
    Sim(Playing(i, GoalTime * TU, 0),
        [Standing(place.x, place.y, GoalTime * TU) EXCEPT
            !.vy = place.vy, !.grounded = place.grounded,
            !.coyoteUntil = IF place.grounded THEN @ ELSE 0,
            !.jumpsRemaining = IF place.grounded THEN @ ELSE 1],
        [l EXCEPT !.progress.startTime = 0],
        NewInput)

SpringFrames == 4
SpringEvents == 2

InitSpring ==
    \E place \in SpringPlaces(createLevel(0)) :
        LET m == AtSpring(0, place) IN
        /\ eng = m.eng
        /\ player = m.player
        /\ level = m.level
        /\ input = m.input
        /\ twin = NoTwin
        /\ last = Env({"ArrowRight", "Space"}, {TickDelta, TwoTickDelta},
                      SpringFrames, SpringEvents, 0)

SpringKeys == \E code \in {"ArrowRight", "Space"} : KeyDown(code) \/ KeyUp(code)

NextSpring ==
    \/ SpringKeys
    \/ \E d \in {TickDelta, TwoTickDelta} : Frame(d)

SpecSpring == InitSpring /\ [][NextSpring]_vars

\* The springs of level l whose box player p overlaps with its bottom in
\* their band.
SpringsUnder(p, l) ==
    LET phb == getHitbox(p) IN
    {k \in 1..Len(l.springs) :
        LET s == l.springs[k] IN
        /\ aabbIntersects(phb, [x |-> s.x - s.w \div 2, y |-> s.y - s.h,
                                w |-> s.w, h |-> s.h])
        /\ phb.y + phb.h >= s.y - s.h + Px(4)
        /\ phb.y + phb.h <= s.y + Px(8)}

\* level.update of a tick, from sim m0 (after player.update) to sim m1:
\* springsUsed counts the springs under the falling player, one each.
SpringTick(m0, m1, fallingOnly) ==
    LET used == m1.level.progress.springsUsed - m0.level.progress.springsUsed IN
    (m1.eng.levelIndex = m0.eng.levelIndex /\ m1.eng.state = "playing")
    => /\ used \in {0, 1}
       /\ used = 1 => /\ SpringsUnder(m0.player, m0.level) # {}
                      /\ IF fallingOnly THEN m0.player.vy > 0 ELSE m0.player.vy >= 0
                      /\ m1.player.vy = maxSpringVy
       /\ (m0.player.vy < 0 \/ (fallingOnly /\ m0.player.vy = 0)) => used = 0

RECURSIVE SpringTicks(_, _), SpringTicksFrom(_, _, _, _)
SpringTicks(m, fallingOnly) ==
    IF m.eng.accumulator < fixedDt \/ m.eng.gameOver THEN TRUE
    ELSE SpringTicksFrom(m, UpdatePlayer(Shoot(m), fixedDt), Step(m, fixedDt),
                         fallingOnly)

SpringTicksFrom(m, m0, m1, fallingOnly) ==
    /\ SpringTick(m0, m1, fallingOnly)
    /\ SpringTicks([m1 EXCEPT !.eng.accumulator = @ - fixedDt], fallingOnly)

\* C22: a spring triggers only in a tick in which the player overlaps it,
\* is falling (vy > 0) and has its bottom in the band of the spring; a
\* player that stands or walks (vy = 0) or rises over the spring does not
\* trigger it; a trigger adds exactly 1 to springsUsed.
SpringNeedsFall ==
    [][\A d \in last.deltas :
         (last'.op = "frame" /\ last'.d = d /\ last'.playing)
            => SpringTicks(LoopEntry(Cur, d), TRUE)]_vars

\* What the code guarantees: the same with "not rising" (vy >= 0) in the
\* place of "falling".
SpringNeedsNoRise ==
    [][\A d \in last.deltas :
         (last'.op = "frame" /\ last'.d = d /\ last'.playing)
            => SpringTicks(LoopEntry(Cur, d), FALSE)]_vars


(***************************************************************************)
(* Power flags, in the goal harness: the player holds the gun power and    *)
(* walks through the goal of a level whose boss is dead.                   *)
(***************************************************************************)
\* A frame of the running game took a power flag from the player.
PowerLost ==
    /\ last'.op = "frame" /\ last'.playing
    /\ eng.state = "playing" /\ eng'.state = "playing"
    /\ \/ player.hasGunPower /\ ~player'.hasGunPower
       \/ player.hasShieldPower /\ ~player'.hasShieldPower

\* C23: a power flag (hasGunPower, hasShieldPower), once granted, stays
\* true through every tick until the player loses a life: a frame that
\* clears one also takes a life, and no other event, reaching the next
\* level included, clears it.
PowersUntilDeath == [][PowerLost => player'.lives < player.lives]_vars

\* What the code guarantees: a frame that clears a power flag takes a life
\* or moves the game to the next level.
PowersUntilRespawn ==
    [][PowerLost => \/ player'.lives < player.lives
                    \/ eng'.levelIndex > eng.levelIndex]_vars


(***************************************************************************)
(* Hostiles: level 1 in play, the player with the gun above or beside the  *)
(* first ground enemy (whole, wounded by a bullet, or shot dead), above    *)
(* the first bird, or beside the boss just shot dead.                      *)
(***************************************************************************)
\* Enemy e as a bullet that found it with 1 hit point left it.
ShotDead(e) == HostileTakeHit([e EXCEPT !.hp = 1], 1, TU \div 2)

HostileScenes(l) ==
    LET e == l.enemies[1]
        f == l.enemies[2]
        b == l.boss
        top(h) == EnemyAabb(h).y
    IN {[x |-> e.x, y |-> top(e) - Px(2), vy |-> Px(6), grounded |-> FALSE, l |-> l],
        [x |-> e.x, y |-> top(e) - Px(2), vy |-> Px(6), grounded |-> FALSE,
         l |-> [l EXCEPT !.enemies[1].hp = 1]],
        [x |-> e.x - Px(50), y |-> e.y, vy |-> 0, grounded |-> TRUE, l |-> l],
        [x |-> e.x - Px(50), y |-> e.y, vy |-> 0, grounded |-> TRUE,
         l |-> [l EXCEPT !.enemies[1].hp = 1]],
        [x |-> e.x - Px(50), y |-> e.y, vy |-> 0, grounded |-> TRUE,
         l |-> [l EXCEPT !.enemies[1] = ShotDead(e),
                         !.progress.groundKilled = 1]],
        [x |-> f.x, y |-> top(f) - Px(2), vy |-> Px(6), grounded |-> FALSE, l |-> l],
        [x |-> b.x - Px(90), y |-> b.y, vy |-> 0, grounded |-> TRUE,
         l |-> [l EXCEPT !.boss = HostileTakeHit([b EXCEPT !.hp = 1], 1,
                                                 (TU * 6) \div 10)]]}

AtHostile(i, scene) ==
    LET p == [Standing(scene.x, scene.y, GoalTime * TU) EXCEPT
                 !.vy = scene.vy, !.grounded = scene.grounded,
                 !.coyoteUntil = IF scene.grounded THEN @ ELSE 0,
                 !.jumpsRemaining = IF scene.grounded THEN @ ELSE 1,
                 !.hasGunPower = TRUE, !.rings = 3]
        w == UpdateBossReward(World(p, [scene.l EXCEPT
                                           !.boxes[5].used = TRUE,
                                           !.progress.startTime = 0,
                                           !.progress.hasPowerCoin = TRUE]))
    IN Sim(Playing(i, GoalTime * TU, 0), w.p, w.l, NewInput)

HostileFrames == 4
HostileEvents == 2

\* Sim m after n frames of interval d.
RECURSIVE Played(_, _, _)
Played(m, n, d) ==
    IF n = 0 \/ FrameRun(m, d).m = m THEN m
    ELSE Played(FrameRun(m, d).m, n - 1, d)

\* The player has stood 710 px left of the fifth enemy since it pressed
\* KeyF 59 ticks ago (SlowFrames frames of three ticks and one of two); the
\* bullet is in its last tick and has come up to the enemy.
SlowFrames == 19

SpentBullet(i) ==
    LET l == createLevel(i)
        m == AtHostile(i, [x |-> l.enemies[5].x - Px(710), y |-> l.enemies[5].y,
                           vy |-> 0, grounded |-> TRUE, l |-> l])
    IN FrameRun(Played([m EXCEPT !.input = keydown(@, "KeyF")], SlowFrames, SlowDelta),
                TwoTickDelta).m

\* The player has stood 700 px left of the boss for AttackFrames frames of
\* three ticks: the attack the boss spawned in the first of these ticks has
\* flown over the player's head and is still in flight.
AttackFrames == 59

OldAttack(i) ==
    LET l == createLevel(i)
    IN Played(AtHostile(i, [x |-> l.boss.x - Px(700), y |-> l.boss.y,
                            vy |-> 0, grounded |-> TRUE, l |-> l]),
              AttackFrames, SlowDelta)

HostileSims ==
    {AtHostile(0, scene) : scene \in HostileScenes(createLevel(0))}
    \cup {SpentBullet(0), OldAttack(0)}

InitHostile ==
    \E m \in HostileSims :
        /\ eng = m.eng
        /\ player = m.player
        /\ level = m.level
        /\ input = m.input
        /\ twin = NoTwin
        /\ last = Env({"KeyF", "ArrowRight"}, {TickDelta, SlowDelta},
                      HostileFrames, HostileEvents, 0)

SpecHostile == InitHostile /\ [][NextGoal]_vars

\* The hostiles of level l: its enemies and its boss.
Hostiles(l) ==
    {l.enemies[k] : k \in 1..Len(l.enemies)}
    \cup {b \in {[x |-> l.boss.x, y |-> l.boss.y, w |-> l.boss.w, h |-> l.boss.h,
                  hp |-> l.boss.hp, alive |-> l.boss.alive,
                  deathTimer |-> l.boss.deathTimer]} : l.boss.present}

\* C24: a hostile is alive exactly while it has hit points left: in every
\* state alive = false implies hp = 0 and alive = true implies hp > 0 (and
\* so a death, by bullet or by stomp, is a death at hp 0 that starts the
\* death timer).
HostileLifecycle ==
    \A h \in Hostiles(level) : h.alive <=> h.hp > 0

\* A step in which an enemy dies starts its death timer.
DeathStartsTimer ==
    [][\A k \in 1..Len(level.enemies) :
         (last'.op = "frame" /\ eng'.levelIndex = eng.levelIndex
            /\ Len(level'.enemies) = Len(level.enemies)
            /\ level.enemies[k].alive /\ ~level'.enemies[k].alive)
           => level'.enemies[k].deathTimer > 0]_vars

\* What the code guarantees: a hostile without hit points is dead.
NoHitPointsIsDead ==
    \A h \in Hostiles(level) : h.hp <= 0 => ~h.alive


\* Sequence s without the elements at the indices in D.
Without(s, D) ==
    LET f[i \in 0..Len(s)] ==
            IF i = 0 THEN <<>>
            ELSE IF i \in D THEN f[i - 1] ELSE Append(f[i - 1], s[i])
    IN f[Len(s)]

\* The indices of the dead enemies of level l.
DeadEnemies(l) == {k \in 1..Len(l.enemies) : ~l.enemies[k].alive}

\* Sim m with the enemies at the indices in D, and the boss if noBoss says
\* so, taken out of its level.
Buried(m, D, noBoss) ==
    [m EXCEPT !.level.enemies = Without(@, D),
              !.level.boss = IF noBoss THEN NoBoss ELSE @]

\* A tick from sim m to sim m1, n1 being the tick from m with the dead
\* hostiles of m taken out of the level: the dead hostiles of m are in m1
\* what they were, but for the death timer running down, they cannot be
\* hit, and the rest of the game went as if they were not there.
InertTick(m, m1, n1) ==
    LET dead == DeadEnemies(m.level)
        deadBoss == m.level.boss.present /\ ~m.level.boss.alive
    IN (m1.eng.levelIndex = m.eng.levelIndex /\ m1.eng.state = "playing")
       => /\ \A k \in dead :
               /\ m1.level.enemies[k] =
                     [m.level.enemies[k] EXCEPT !.deathTimer = CountDown(@, fixedDt)]
               /\ HostileTakeHit(m1.level.enemies[k], 1, TU \div 2) = m1.level.enemies[k]
          /\ deadBoss =>
               /\ m1.level.boss =
                     [m.level.boss EXCEPT !.deathTimer = CountDown(@, fixedDt)]
               /\ HostileTakeHit(m1.level.boss, 1, (TU * 6) \div 10) = m1.level.boss
               /\ Len(m1.level.bossAttacks) <= Len(m.level.bossAttacks)
          /\ Buried(m1, dead, deadBoss) = n1

RECURSIVE InertTicks(_), InertTicksFrom(_, _, _)
InertTicks(m) ==
    IF m.eng.accumulator < fixedDt \/ m.eng.gameOver THEN TRUE
    ELSE InertTicksFrom(m, Step(m, fixedDt),
                        Step(Buried(m, DeadEnemies(m.level),
                                    m.level.boss.present /\ ~m.level.boss.alive),
                             fixedDt))

InertTicksFrom(m, m1, n1) ==
    /\ InertTick(m, m1, n1)
    /\ InertTicks([m1 EXCEPT !.eng.accumulator = @ - fixedDt])

\* C25: from the tick of its death on a hostile (ground enemy, bird or
\* boss) is inert: takeHit leaves its hp alone, it does not move, it
\* neither hurts nor bounces the player that overlaps it, it stops no
\* bullet, and a dead boss spawns no attack.
DeadHostilesAreInert ==
    [][\A d \in last.deltas :
         (last'.op = "frame" /\ last'.d = d /\ last'.playing)
            => InertTicks(LoopEntry(Cur, d))]_vars

\* After a one-tick frame the player stands in the box of a dead enemy
\* with its rings, having been neither hurt nor bounced.
InsideDeadEnemy ==
    /\ last.op = "frame" /\ last.ticks = 1 /\ last.playing
    /\ \E k \in DeadEnemies(level) :
          /\ level.enemies[k].deathTimer < TU \div 2
          /\ aabbIntersects(getHitbox(player), EnemyAabb(level.enemies[k]))
    /\ player.grounded
    /\ player.rings = last.pre.player.rings
    /\ player.invuln = 0


\* The box of bullet b after this tick's move.
MovedBulletBox(b) ==
    [x |-> b.x + b.vx - Px(4), y |-> b.y - Px(4), w |-> Px(8), h |-> Px(8)]

\* The hit points the hostiles of level l0 lose on the way to level l1.
RECURSIVE EnemiesHpLost(_, _, _)
EnemiesHpLost(l0, l1, k) ==
    IF k = 0 THEN 0
    ELSE l0.enemies[k].hp - l1.enemies[k].hp + EnemiesHpLost(l0, l1, k - 1)

HpLost(l0, l1) ==
    EnemiesHpLost(l0, l1, Len(l0.enemies))
    + (IF l0.boss.present THEN l0.boss.hp - l1.boss.hp ELSE 0)

\* The bullet b of level l0 overlaps, after this tick's moves, a hostile of
\* level l1 that the bullet loop finds alive: an enemy alive in l1 or one
\* that lost its last hit point in this tick, or the boss likewise.
TouchesLiving(b, l0, l1) ==
    \/ \E k \in 1..Len(l1.enemies) :
          /\ l0.enemies[k].alive
          /\ l1.enemies[k].alive \/ l1.enemies[k].hp < l0.enemies[k].hp
          /\ aabbIntersects(MovedBulletBox(b), EnemyAabb(l1.enemies[k]))
    \/ /\ l0.boss.present /\ l0.boss.alive
       /\ aabbIntersects(MovedBulletBox(b), BossAabb(l1.boss))

\* A tick with one bullet in flight, from sim m0 (after the shot and
\* player.update) to sim m1: the hostiles lose at most 1 hit point, a hit
\* removes the bullet, and (if firstOverlapHits) a bullet that overlaps a
\* living hostile hits.
BulletTick(m0, m1, firstOverlapHits) ==
    (m1.eng.levelIndex = m0.eng.levelIndex /\ m1.eng.state = "playing"
       /\ Len(m0.level.bullets) = 1)
    => /\ HpLost(m0.level, m1.level) \in {0, 1}
       /\ HpLost(m0.level, m1.level) = 1
            => /\ m1.level.bullets = <<>>
               /\ TouchesLiving(m0.level.bullets[1], m0.level, m1.level)
       /\ (TouchesLiving(m0.level.bullets[1], m0.level, m1.level)
             /\ (firstOverlapHits \/ m0.level.bullets[1].life - fixedDt > 0))
            => /\ HpLost(m0.level, m1.level) = 1
               /\ m1.level.bullets = <<>>

RECURSIVE BulletTicks(_, _), BulletTicksFrom(_, _, _)
BulletTicks(m, firstOverlapHits) ==
    IF m.eng.accumulator < fixedDt \/ m.eng.gameOver THEN TRUE
    ELSE BulletTicksFrom(UpdatePlayer(Shoot(m), fixedDt), Step(m, fixedDt),
                         firstOverlapHits)

BulletTicksFrom(m0, m1, firstOverlapHits) ==
    /\ BulletTick(m0, m1, firstOverlapHits)
    /\ BulletTicks([m1 EXCEPT !.eng.accumulator = @ - fixedDt], firstOverlapHits)

\* C26: a bullet damages at most one hostile: in the first tick in which
\* it overlaps a living enemy or the living boss exactly one target loses
\* exactly 1 hp and the bullet is removed in that tick.
FirstHitWins ==
    [][\A d \in last.deltas :
         (last'.op = "frame" /\ last'.d = d /\ last'.playing)
            => BulletTicks(LoopEntry(Cur, d), TRUE)]_vars

\* What the code guarantees: the same for a bullet whose lifetime has not
\* run out in the tick of the overlap.
FirstHitWinsInTime ==
    [][\A d \in last.deltas :
         (last'.op = "frame" /\ last'.d = d /\ last'.playing)
            => BulletTicks(LoopEntry(Cur, d), FALSE)]_vars



(***************************************************************************)
(* Projectile lifetimes                                                    *)
(***************************************************************************)
\* The number of level updates a bullet or a boss attack has been through:
\* each update takes dt off its life, which started at 1.0 or at 3.0.
BulletUpdates(b) == (TU - b.life) \div fixedDt

AttackUpdates(atk) == (AttackLife - atk.life) \div fixedDt

\* After a tick every projectile left in the level has been through fewer
\* than its number of updates.
ExpiryTick(m1, bulletMax, attackMax) ==
    /\ \A k \in 1..Len(m1.level.bullets) :
          BulletUpdates(m1.level.bullets[k]) < bulletMax
    /\ \A k \in 1..Len(m1.level.bossAttacks) :
          AttackUpdates(m1.level.bossAttacks[k]) < attackMax

RECURSIVE ExpiryTicks(_, _, _), ExpiryTicksFrom(_, _, _)
ExpiryTicks(m, bulletMax, attackMax) ==
    IF m.eng.accumulator < fixedDt \/ m.eng.gameOver THEN TRUE
    ELSE ExpiryTicksFrom(Step(m, fixedDt), bulletMax, attackMax)

ExpiryTicksFrom(m1, bulletMax, attackMax) ==
    /\ ExpiryTick(m1, bulletMax, attackMax)
    /\ ExpiryTicks([m1 EXCEPT !.eng.accumulator = @ - fixedDt], bulletMax, attackMax)

\* C27: every bullet is removed from the level within 60 level updates of
\* being spawned and every boss attack within 180, whether or not it hits
\* anything.
ProjectilesExpire ==
    [][\A d \in last.deltas :
         (last'.op = "frame" /\ last'.d = d /\ last'.playing)
            => ExpiryTicks(LoopEntry(Cur, d), 60, 180)]_vars

\* What the code guarantees: a boss attack is removed within 181 updates.
ProjectilesExpireLate ==
    [][\A d \in last.deltas :
         (last'.op = "frame" /\ last'.d = d /\ last'.playing)
            => ExpiryTicks(LoopEntry(Cur, d), 60, 181)]_vars

\* A boss attack has been through 180 updates and is still in the level.
AttackOutlives == \E k \in 1..Len(level.bossAttacks) : AttackUpdates(level.bossAttacks[k]) >= 180



(***************************************************************************)
(* Mission tasks in play: a spring short of the optional spring task of    *)
(* level 2, a bird short of the mandatory bird task of level 1; the level  *)
(* can be replayed from the settings pause.                                *)
(***************************************************************************)
MissionFrames == 4
MissionEvents == 2
MissionCommands == 2

MissionSims ==
    {[AtSpring(1, place) EXCEPT !.level.progress.springsUsed = 1] :
        place \in SpringPlaces(createLevel(1))}
    \cup {LET l == createLevel(0)
              f == l.enemies[2]
          IN AtHostile(0, [x |-> f.x, y |-> EnemyAabb(f).y - Px(2), vy |-> Px(6),
                           grounded |-> FALSE,
                           l |-> [l EXCEPT !.enemies[3].alive = FALSE,
                                           !.progress.flyingKilled = 1]])}

InitMission ==
    \E m \in MissionSims :
        /\ eng = m.eng
        /\ player = m.player
        /\ level = m.level
        /\ input = m.input
        /\ twin = NoTwin
        /\ last = Env({"ArrowRight"}, {TickDelta, TwoTickDelta},
                      MissionFrames, MissionEvents, MissionCommands)

NextMission ==
    \/ KeyDown("ArrowRight")
    \/ KeyUp("ArrowRight")
    \/ \E d \in {TickDelta, TwoTickDelta} : Frame(d)
    \/ OpenSettings
    \/ ReplayLevel

SpecMission == InitMission /\ [][NextMission]_vars

\* The ids of the tasks of level l that satisfy optional.
TaskIdsOf(l, mandatory) ==
    {l.tasks[k].id : k \in {j \in 1..Len(l.tasks) : l.tasks[j].mandatory = mandatory}}

\* One tick entered with sim m: done0 is the completed set at its start,
\* w0 the world level.update has reached before its task block and w1 the
\* world it leaves.
TaskTick(done0, w0, w1) ==
    /\ done0 \subseteq w1.l.completedTasks
    /\ \A k \in 1..Len(w1.l.tasks) :
          w1.l.tasks[k].id \in w1.l.completedTasks
             <=> \/ w1.l.tasks[k].id \in done0
                 \/ TaskDone(w1.l.tasks[k], w1.l.progress)
    /\ w1.p.rings = w0.p.rings
          + 5 * Cardinality((w1.l.completedTasks \ done0) \cap TaskIdsOf(w1.l, FALSE))

TaskTickOf(m, m0) ==
    TaskTick(m.level.completedTasks,
             BeforeTasks(m0.level, m0.player, fixedDt, m0.eng.timeSeconds),
             LevelUpdate(m0.level, m0.player, fixedDt, m0.eng.timeSeconds))

RECURSIVE TaskTicks(_)
TaskTicks(m) ==
    IF m.eng.accumulator < fixedDt \/ m.eng.gameOver THEN TRUE
    ELSE /\ TaskTickOf(m, UpdatePlayer(Shoot(m), fixedDt))
         /\ TaskTicks([Step(m, fixedDt) EXCEPT !.eng.accumulator = @ - fixedDt])

\* In every tick a task is in the completed set at the end exactly if it
\* was there at the start or the progress the tick leaves satisfies its
\* predicate, and the task block adds 5 rings for each optional task that
\* entered the set in the tick and nothing else.
TasksCompleteInTicks ==
    \A d \in last.deltas :
        (last'.op = "frame" /\ last'.d = d /\ last'.playing) => TaskTicks(LoopEntry(Cur, d))

\* The step leaves the Level object in place: no level advance, no level
\* selection, no engine reset.
SameLevel == eng'.levelIndex = eng.levelIndex /\ last'.op # "exitToMenu" /\ eng.state # "title"

\* C28 as stated: within one level instance a task is completed in the
\* first tick whose end-of-tick progress satisfies its predicate, is never
\* removed and never completed again, and the 5-ring bonus is awarded once
\* per optional task and never for a mandatory one.
TasksCompleteOnce ==
    [][/\ TasksCompleteInTicks
       /\ SameLevel => level.completedTasks \subseteq level'.completedTasks]_vars

\* C28: the same between two calls of Level.reset of the level instance
\* (replayLevel resets the instance in place and empties its completed set).
TasksCompleteOncePerReset ==
    [][/\ TasksCompleteInTicks
       /\ (SameLevel /\ last'.op # "replayLevel")
             => level.completedTasks \subseteq level'.completedTasks]_vars

\* A tick has completed the optional task of the level and paid its bonus:
\* the player, who had no ring, holds 5.
OptionalTaskPaid ==
    /\ last.op = "frame"
    /\ "spring" \in level.completedTasks
    /\ player.rings = 5

\* A tick has completed a mandatory task.
MandatoryTaskDone == last.op = "frame" /\ "fly" \in level.completedTasks



(***************************************************************************)
(* Jump presses: the player of the jump section, frames of one tick and of *)
(* three.                                                                  *)
(***************************************************************************)
HopFrames == 4
HopEvents == 3

InitHop ==
    \E fresh \in BOOLEAN :
        LET m == Started(FALSE) IN
        /\ eng = m.eng
        /\ player = IF fresh THEN Restart(m.player) ELSE m.player
        /\ level = m.level
        /\ input = m.input
        /\ twin = NoTwin
        /\ last = Env({"Space", "KeyZ"}, {TickDelta, SlowDelta}, HopFrames, HopEvents, 0)

HopKeys == \E code \in {"Space", "KeyZ"} : KeyDown(code) \/ KeyUp(code)

NextHop ==
    \/ HopKeys
    \/ \E d \in {TickDelta, SlowDelta} : Frame(d)

SpecHop == InitHop /\ [][NextHop]_vars

\* The jump block of Player.update runs _doJump or _doDoubleJump in the
\* tick that starts from sim m.
Jumps(m) ==
    LET canGroundJump == m.player.grounded \/ m.eng.timeSeconds <= m.player.coyoteUntil
    IN /\ ~m.eng.gameOver
       /\ jumpBuffered(m.input, m.eng.timeSeconds)
       /\ canGroundJump \/ (~m.player.grounded /\ m.player.jumpsRemaining > 0)

\* The number of ticks of the accumulator loop entered with sim m in which
\* the player jumps.
RECURSIVE JumpTicks(_), JumpTicksFrom(_, _)
JumpTicks(m) ==
    IF m.eng.accumulator < fixedDt THEN 0
    ELSE JumpTicksFrom(IF Jumps(m) THEN 1 ELSE 0, Step(m, fixedDt))

JumpTicksFrom(n, m1) == n + JumpTicks([m1 EXCEPT !.eng.accumulator = @ - fixedDt])

\* A frame that runs ticks, n of them with a jump: n is at most 1; it is 0
\* if no jump key was pressed since the last frame and the buffer is
\* consumed; and a jump leaves the buffer consumed.
HopFrame(n) ==
    /\ n <= 1
    /\ (~anyJustPressed(input, "jump") /\ input.jumpBufferedUntil = 0) => n = 0
    /\ n >= 1 => input'.jumpBufferedUntil = 0

\* C29: a jump press yields at most one jump: once a ground, coyote or
\* mid-air jump has consumed the jump buffer there is no further jump, in
\* the later ticks of the frame or in later frames, until a jump key is
\* pressed again.
OnePressOneJump ==
    [][\A d \in last.deltas :
         (last'.op = "frame" /\ last'.d = d /\ last'.playing)
            => HopFrame(JumpTicks(LoopEntry(Cur, d)))]_vars

\* The first tick of a frame of three made a ground jump and the other two
\* made none, although the player was in the air with its mid-air jump left.
JumpedOnce ==
    /\ last.op = "frame"
    /\ last.ticks = 3
    /\ last.pre.player.grounded
    /\ ~player.grounded
    /\ player.jumpsRemaining = 1
    /\ player.vy = -jumpVel + 3 * gravity
    /\ input.jumpBufferedUntil = 0



(***************************************************************************)
(* The combo count and its timer                                           *)
(***************************************************************************)
\* Player p is in a combo exactly while its combo timer runs.
ComboRuns(p) == p.comboCount > 0 <=> p.comboTimer > 0

\* C30: comboCount is reset to 0 exactly in the tick in which comboTimer
\* reaches 0, so that in every state comboCount > 0 if and only if
\* comboTimer > 0.
ComboResetsWithTimer ==
    [][/\ ComboRuns(player)
       /\ ComboRuns(player')
       /\ last'.op = "tick"
            => ((player.comboCount > 0 /\ player'.comboCount = 0)
                  <=> (player.comboTimer > 0 /\ player'.comboTimer = 0))]_vars

\* The tick that ended the combo window has just run: the timer of the
\* first kill has reached 0 and the count is back to 0.
ComboTimedOut ==
    /\ last.op = "tick"
    /\ last.ticks = ComboWindow
    /\ player.comboTimer = 0
    /\ player.comboCount = 0



(***************************************************************************)
(* Coin collection                                                         *)
(***************************************************************************)
\* Level.update of a tick, player.update done (sim m0), up to the coin
\* physics: the world the magnet block starts from.
BeforeCoins(m0) ==
    LET phb == getHitbox(m0.player) IN
    UpdateCoinPhysics(UpdateBoxes(UpdateSprings(
        UpdateGoalProgress(World(m0.player, m0.level), m0.eng.timeSeconds), phb), phb))

\* The magnet block and the direct block, from world w.
CoinsCollected(w, phb) ==
    UpdateDirectCoins(UpdateMagnet(w, phb.x + phb.w \div 2, phb.y + phb.h \div 2),
                      phb.x + phb.w \div 2, phb.y + phb.h \div 2)

\* The coins that are active in world w0 and inactive in world w1.
Taken(w0, w1) ==
    {k \in 1..Len(w0.l.coins) : w0.l.coins[k].active /\ ~w1.l.coins[k].active}

\* The two collection blocks from world w0 to world w1: rings and the
\* mission counter go up by one for each coin taken, and a coin that was
\* inactive is left as it was.
CoinTick(w0, w1) ==
    /\ Len(w1.l.coins) = Len(w0.l.coins)
    /\ w1.p.rings = w0.p.rings + Cardinality(Taken(w0, w1))
    /\ w1.l.progress.coinsCollected
          = w0.l.progress.coinsCollected + Cardinality(Taken(w0, w1))
    /\ \A k \in 1..Len(w0.l.coins) :
          ~w0.l.coins[k].active => w1.l.coins[k] = w0.l.coins[k]

\* A whole tick from sim m to sim m1 on the same level: an inactive coin is
\* the same afterwards.
CoinsStayTaken(m, m1) ==
    m1.eng.levelIndex = m.eng.levelIndex
       => \A k \in 1..Len(m.level.coins) :
             ~m.level.coins[k].active => m1.level.coins[k] = m.level.coins[k]

RECURSIVE CoinTicks(_), CoinTicksAfter(_, _), CoinTicksFrom(_, _, _, _)
CoinTicks(m) ==
    IF m.eng.accumulator < fixedDt \/ m.eng.gameOver THEN TRUE
    ELSE CoinTicksAfter(m, UpdatePlayer(Shoot(m), fixedDt))

CoinTicksAfter(m, m0) == CoinTicksFrom(m, m0, BeforeCoins(m0), StepEnd(UpdateLevel(m0, fixedDt)))

CoinTicksFrom(m, m0, w0, m1) ==
    /\ CoinTick(w0, CoinsCollected(w0, getHitbox(m0.player)))
    /\ CoinsStayTaken(m, m1)
    /\ CoinTicks([m1 EXCEPT !.eng.accumulator = @ - fixedDt])

\* C31: a coin is collected at most once: in the tick it is collected, by
\* the magnet or by direct overlap or with both conditions met, it becomes
\* inactive and rings and coinsCollected go up by exactly 1 for it, and an
\* inactive coin is never collected or moved again.
CoinsCollectedOnce ==
    [][\A d \in last.deltas :
         (last'.op = "frame" /\ last'.d = d /\ last'.playing)
            => CoinTicks(LoopEntry(Cur, d))]_vars

\* A one-tick frame with the magnet running has taken a coin that lies
\* within the direct pickup radius of the player as well, and the player
\* holds one ring more.
CoinTakenBothWays ==
    /\ last.op = "frame" /\ last.ticks = 1
    /\ player.magnetTimer > 0
    /\ player.rings = last.pre.player.rings + 1
    /\ \E k \in 1..Len(level.coins) :
          LET hb == getHitbox(player)
              dx == level.coins[k].x - (hb.x + hb.w \div 2)
              dy == level.coins[k].y - (hb.y + hb.h \div 2)
          IN /\ ~level.coins[k].active
             /\ Near(dx, dy, Px(16)) /\ Dist2(dx, dy) <= Sq(Px(16))



(***************************************************************************)
(* createLevel on its own: levels are built for indices in and above the   *)
(* range of LEVEL_DEFS, as the level selection of the title screen builds  *)
(* them (levelIndex = idx; level = createLevel(idx)).                      *)
(***************************************************************************)
\* How far past the last valid index the indices go.
MaxOver == 3
BuildEvents == 8

BuildIndexes == 0..(NumLevels - 1 + MaxOver)

InitBuild ==
    /\ eng = Bootstrap.eng
    /\ player = Bootstrap.player
    /\ level = Bootstrap.level
    /\ input = Bootstrap.input
    /\ twin = NoTwin
    /\ last = Env({}, {}, 0, BuildEvents, 0)

Build(idx) ==
    /\ last.events > 0
    /\ Becomes(SelectLevel(Cur, idx))
    /\ last' = [last EXCEPT !.op = "build", !.events = @ - 1, !.pre = Pre]
    /\ UNCHANGED twin

NextBuild == \E idx \in BuildIndexes : Build(idx)

SpecBuild == InitBuild /\ [][NextBuild]_vars

\* C32: createLevel called with an index outside 0..9 builds exactly the
\* level the nearest valid index would build: the same width, layout,
\* enemies, boss and tasks, the Level's own index being the clamped one.
BuildsClampedLevel ==
    last.op = "build" => level = createLevel(clamp(eng.levelIndex, 0, NumLevels - 1))

\* What the code guarantees: the colours are those of the nearest valid
\* index, the Level's index is the one createLevel received.
BuildsClampedColours ==
    last.op = "build"
       => /\ level.def = clamp(eng.levelIndex, 0, NumLevels - 1)
          /\ level.index = eng.levelIndex
          /\ level.width = Px(6200 + eng.levelIndex * 520)



(***************************************************************************)
(* Play at the boss without rings: the small player, no shield, stands     *)
(* beside the boss of level 1, whose first attack is due.                  *)
(***************************************************************************)
BiteFrames == 4
BiteEvents == 2

InitBite ==
    \E lives \in {1, StartLives} :
      \E place \in BossPlaces(createLevel(0).boss) :
        LET m == AtBoss(0, 10, place) IN
        /\ eng = m.eng
        /\ player = [m.player EXCEPT !.rings = 0, !.lives = lives]
        /\ level = m.level
        /\ input = m.input
        /\ twin = NoTwin
        /\ last = Env({"ArrowRight", "Space"}, {TickDelta, SlowDelta},
                      BiteFrames, BiteEvents, 0)

SpecBite == InitBite /\ [][NextGoal]_vars

\* Every tick of the accumulator loop entered with sim m takes at most one
\* life and leaves no fewer than least lives.
RECURSIVE LifeTicks(_, _), LifeTicksFrom(_, _, _)
LifeTicks(m, least) ==
    IF m.eng.accumulator < fixedDt THEN TRUE
    ELSE LifeTicksFrom(m.player.lives, Step(m, fixedDt), least)

LifeTicksFrom(lives0, m1, least) ==
    /\ m1.player.lives >= lives0 - 1
    /\ m1.player.lives >= least
    /\ LifeTicks([m1 EXCEPT !.eng.accumulator = @ - fixedDt], least)

\* C33: a tick never takes more than one life, however many hostiles and
\* boss attacks overlap the player in it, and player.lives is never
\* negative.
OneLifePerTick ==
    [][/\ player'.lives >= 0
       /\ \A d \in last.deltas :
            (last'.op = "frame" /\ last'.d = d /\ last'.playing)
               => LifeTicks(LoopEntry(Cur, d), 0)]_vars



\* C34: whenever gameOver is false the player has at least one life, at
\* every frame boundary and after replayLevel from the game-over state.
AliveUnlessOver == ~eng.gameOver => player.lives >= 1



(***************************************************************************)
(* The shield on its own: the methods that write the shield fields, called *)
(* in any order on a new player: the pickup of the blue coin, the toggle   *)
(* of Player.update with the shield key pressed, and Player.takeHit (whose *)
(* life path calls respawn).                                               *)
(***************************************************************************)
ShieldEvents == 14
ShieldLives == 2

InitShield ==
    /\ eng = [NewEngine EXCEPT !.state = "playing"]
    /\ player = [setSpawn(NewPlayer(Px(500), Px(300)), Px(SpawnX), Px(SpawnY)) EXCEPT
                    !.lives = ShieldLives]
    /\ level = NewLevel(0)
    /\ input = NewInput
    /\ twin = NoTwin
    /\ last = Env({}, {}, 0, ShieldEvents, 0)

ShieldOp(name, p) ==
    /\ last.events > 0
    /\ player.lives > 0
    /\ player' = p
    /\ last' = [last EXCEPT !.op = name, !.events = @ - 1, !.pre = Pre]
    /\ UNCHANGED <<eng, level, input, twin>>

\* The pickup of the blue coin.
CollectShield == ShieldOp("collect", [player EXCEPT !.hasShieldPower = TRUE, !.powerFlash = TU \div 2])

\* The toggle block of a tick that sees the shield key pressed.
PressShield == ShieldOp("toggle", ToggleShield(player, keydown(input, "KeyE")))

ShieldHit == \E knockDir \in {-1, 1} : ShieldOp("takeHit", takeHit(player, knockDir))

NextShield == CollectShield \/ PressShield \/ ShieldHit

SpecShield == InitShield /\ [][NextShield]_vars

\* C35: shieldActive implies hasShieldPower and shieldHits < shieldMaxHits,
\* and shieldHits never exceeds shieldMaxHits: a broken shield that is
\* activated again starts from 0 hits.
ShieldInvariant ==
    /\ player.shieldActive => (player.hasShieldPower /\ player.shieldHits < shieldMaxHits)
    /\ player.shieldHits <= shieldMaxHits
    /\ (last.op = "toggle" /\ player.shieldActive
          /\ last.pre.player.shieldHits >= shieldMaxHits) => player.shieldHits = 0

\* A shield broken by its fifth hit has been activated again and has no hit.
BrokenShieldRaised ==
    /\ last.op = "toggle"
    /\ last.pre.player.shieldHits = shieldMaxHits
    /\ player.shieldActive
    /\ player.shieldHits = 0



(***************************************************************************)
(* Kill counters                                                           *)
(***************************************************************************)
\* The enemies of level l that are dead, flying or not.
Killed(l, flying) ==
    Cardinality({k \in 1..Len(l.enemies) :
                    ~l.enemies[k].alive /\ l.enemies[k].isFlying = flying})

\* The boss of level l counts 1 when it is dead (a boss has no isFlying).
BossKilled(l) == IF l.boss.present /\ ~l.boss.alive THEN 1 ELSE 0

\* C36, as stated: flyingKilled is the number of dead flying hostiles and
\* groundKilled the number of dead non-flying hostiles, the boss being one
\* of the hostiles; the counters never exceed flyingTotal and groundTotal.
KillCountersExact ==
    /\ level.progress.flyingKilled = Killed(level, TRUE)
    /\ level.progress.groundKilled = Killed(level, FALSE) + BossKilled(level)
    /\ level.progress.flyingKilled <= level.progress.flyingTotal
    /\ level.progress.groundKilled <= level.progress.groundTotal

\* C36, amended: the counters count the enemies of the level (the ground and
\* flying patrollers of _enemies), each at most once whether it was stomped
\* or shot; the boss is counted by neither counter and by neither total.
EnemyKillCountersExact ==
    /\ level.progress.flyingKilled = Killed(level, TRUE)
    /\ level.progress.groundKilled = Killed(level, FALSE)
    /\ level.progress.flyingTotal = Killed(level, TRUE)
         + Cardinality({k \in 1..Len(level.enemies) :
                           level.enemies[k].alive /\ level.enemies[k].isFlying})
    /\ level.progress.groundTotal = Killed(level, FALSE)
         + Cardinality({k \in 1..Len(level.enemies) :
                           level.enemies[k].alive /\ ~level.enemies[k].isFlying})

\* A frame has stomped the first ground enemy (its hp is untouched) and the
\* kill is counted.
StompCounted ==
    /\ last.op = "frame"
    /\ ~level.enemies[1].alive
    /\ level.enemies[1].hp > 0
    /\ level.progress.groundKilled = 1



(***************************************************************************)
(* The boss-defeat reward: the player with the gun beside or above a boss  *)
(* that one or two bullets kill; the level can be replayed from the        *)
(* settings pause.                                                         *)
(***************************************************************************)
RewardFrames == 4
RewardEvents == 2
RewardCommands == 2

InitReward ==
    \E hp \in {1, 2} :
      \E place \in BossPlaces(createLevel(0).boss) :
        LET m == AtBoss(0, hp, place) IN
        /\ eng = m.eng
        /\ player = m.player
        /\ level = m.level
        /\ input = m.input
        /\ twin = NoTwin
        /\ last = Env({"KeyF"}, {TickDelta, SlowDelta},
                      RewardFrames, RewardEvents, RewardCommands)

NextReward ==
    \/ KeyDown("KeyF")
    \/ KeyUp("KeyF")
    \/ \E d \in {TickDelta, SlowDelta} : Frame(d)
    \/ OpenSettings
    \/ ReplayLevel

SpecReward == InitReward /\ [][NextReward]_vars

\* The green power orbs of level l.
GreenOrbs(l) == Len(SelectSeq(l.powerPickups, LAMBDA q : q.type = "power_green"))

\* One tick at the boss-defeat block: l0 is the level the tick began with,
\* w0 the world the block finds and w1 the world it leaves.  In the tick
\* the boss dies the block adds the combo score of base 1000, 20 rings, 24
\* active coins and one green orb and clears the boss attacks; in any other
\* tick it changes nothing; and a dead boss leaves no attack behind.
RewardTick(l0, w0, w1) ==
    LET dies == l0.boss.present /\ l0.boss.alive /\ ~w0.l.boss.alive
        combo == IF w0.p.comboTimer > 0 THEN w0.p.comboCount + 1 ELSE 1
    IN /\ dies => /\ ~w0.l.bossRewarded /\ w1.l.bossRewarded
                  /\ w1.p.score = w0.p.score + (1000 * (combo + 1)) \div 2
                  /\ w1.p.rings = w0.p.rings + 20
                  /\ Len(w1.l.coins) = Len(w0.l.coins) + 24
                  /\ SubSeq(w1.l.coins, 1, Len(w0.l.coins)) = w0.l.coins
                  /\ \A k \in (Len(w0.l.coins) + 1)..Len(w1.l.coins) : w1.l.coins[k].active
                  /\ GreenOrbs(w1.l) = GreenOrbs(w0.l) + 1
                  /\ w1.l.bossAttacks = <<>>
       /\ ~dies => w1 = w0
       /\ (w1.l.boss.present /\ ~w1.l.boss.alive)
             => (w1.l.bossRewarded /\ w1.l.bossAttacks = <<>>)

RewardTickOf(l0, w0) == RewardTick(l0, w0, UpdateBossReward(w0))

RewardTickAfter(m, m0) ==
    RewardTickOf(m.level, BeforeReward(m0.level, m0.player, fixedDt, m0.eng.timeSeconds))

RECURSIVE RewardTicks(_)
RewardTicks(m) ==
    IF m.eng.accumulator < fixedDt \/ m.eng.gameOver THEN TRUE
    ELSE /\ RewardTickAfter(m, UpdatePlayer(Shoot(m), fixedDt))
         /\ RewardTicks([Step(m, fixedDt) EXCEPT !.eng.accumulator = @ - fixedDt])

RewardInTicks ==
    \A d \in last.deltas :
        (last'.op = "frame" /\ last'.d = d /\ last'.playing) => RewardTicks(LoopEntry(Cur, d))

\* C37, as stated: the reward is granted in the tick the boss dies and only
\* then, and on one level instance a reward once granted stays granted: no
\* later step of that instance makes it grantable again or holds a boss
\* attack.
BossRewardedOnce ==
    [][/\ RewardInTicks
       /\ (SameLevel /\ level.bossRewarded)
             => (level'.bossRewarded /\ level'.bossAttacks = <<>>)]_vars

\* C37, amended: the same between two calls of Level.reset of the level
\* instance (replayLevel resets the instance in place: the boss lives again
\* and _bossRewarded is cleared).
BossRewardedOncePerReset ==
    [][/\ RewardInTicks
       /\ (SameLevel /\ last'.op # "replayLevel" /\ level.bossRewarded)
             => (level'.bossRewarded /\ level'.bossAttacks = <<>>)]_vars

\* A frame has killed the boss: the reward is granted, the player, who had
\* 3 rings, holds at least 23, the orb and the coins are in the level and
\* no boss attack is left.
BossRewardGranted ==
    /\ last.op = "frame"
    /\ ~level.boss.alive
    /\ level.bossRewarded
    /\ player.rings >= 23
    /\ GreenOrbs(level) = 1
    /\ level.bossAttacks = <<>>



(***************************************************************************)
(* Frames outside play                                                     *)
(***************************************************************************)
\* The frame that starts from sim m carries a command of the keyboard: the
\* reset key, or on the title screen a level selection by digit or arrow.
\* (With the settings menu open _frame returns before it reads either.)
FrameCommand(m) ==
    /\ ~m.eng.settingsOpen
    /\ \/ anyJustPressed(m.input, "reset")
       \/ /\ m.eng.state = "title"
          /\ \/ m.input.levelSelectIndex # -1
             \/ anyJustPressed(m.input, "left")
             \/ anyJustPressed(m.input, "right")

\* A frame of interval d from sim m, m4 being the sim at its accumulator
\* test and r its result: _step runs only if the state is then playing and
\* the settings menu is closed; and if the state is then paused or title,
\* or the menu is open, and the frame carries no command, it runs no tick
\* and leaves the player and the level as they were.  (The camera is
\* written by _step alone.)
QuietFrame(m, m4, r) ==
    /\ r.ticks > 0 => (m4.eng.state = "playing" /\ ~m.eng.settingsOpen)
    /\ (r.m.player # m.player \/ r.m.level # m.level)
          => \/ m4.eng.state = "playing" /\ ~m.eng.settingsOpen
             \/ FrameCommand(m)
    /\ ((m4.eng.state \in {"paused", "title"} \/ m.eng.settingsOpen) /\ ~FrameCommand(m))
          => (r.ticks = 0 /\ r.m.player = m.player /\ r.m.level = m.level)

\* C38: ticks run only while playing.  A frame runs _step only when, at
\* its accumulator test, the state is playing and the settings menu is
\* closed; a frame that finds the state paused or title there and carries
\* no command changes no field of the player or the level.
TicksOnlyWhilePlaying ==
    [][\A d \in last.deltas :
         (last'.op = "frame" /\ last'.d = d)
            => /\ QuietFrame(Cur, FrameStart(Cur, d), FrameRun(Cur, d))
               /\ last'.ticks = FrameRun(Cur, d).ticks
               /\ (last'.ticks = 0 /\ ~FrameCommand(Cur))
                     => (player' = player /\ level' = level)]_vars

\* A frame of four tick lengths has come while the game was paused with the
\* settings menu closed and ArrowRight held: no tick ran and the player is
\* where it was.
PausedFrameIdle ==
    /\ last.op = "frame"
    /\ last.d = SlowDelta
    /\ eng.state = "paused"
    /\ ~eng.settingsOpen
    /\ "ArrowRight" \in input.down
    /\ last.ticks = 0
    /\ player = last.pre.player
    /\ last.pre.eng.state = "paused"



(***************************************************************************)
(* Vertical rest: the player above or beside an enemy or the boss, beside  *)
(* or above a spring, or under a box, with the jump key and ArrowRight.    *)
(***************************************************************************)
RestFrames == 3
RestEvents == 2

RestSims ==
    {AtHostile(0, scene) : scene \in HostileScenes(createLevel(0))}
    \cup {AtSpring(0, place) : place \in SpringPlaces(createLevel(0))}
    \cup {UnderBox(0, 0)}

InitRest ==
    \E m \in RestSims :
        /\ eng = m.eng
        /\ player = m.player
        /\ level = m.level
        /\ input = m.input
        /\ twin = NoTwin
        /\ last = Env({"Space", "ArrowRight"}, {TickDelta, SlowDelta},
                      RestFrames, RestEvents, 0)

SpecRest == InitRest /\ [][NextGoal]_vars

\* One tick, m0 being the sim Player.update left and m1 the sim at the end
\* of the tick: a grounded player has no vertical velocity, after the jump
\* and the collision of Player.update and after the springs, boxes, stomps
\* and hits of Level.update.
RestTick(m0, m1) ==
    /\ m0.player.grounded => m0.player.vy = 0
    /\ m1.player.grounded => m1.player.vy = 0

RestTickAfter(m0) == RestTick(m0, StepEnd(UpdateLevel(m0, fixedDt)))

RECURSIVE RestTicks(_)
RestTicks(m) ==
    IF m.eng.accumulator < fixedDt \/ m.eng.gameOver THEN TRUE
    ELSE /\ RestTickAfter(UpdatePlayer(Shoot(m), fixedDt))
         /\ RestTicks([Step(m, fixedDt) EXCEPT !.eng.accumulator = @ - fixedDt])

\* C39: at the end of every tick grounded implies vy = 0: whatever gives
\* the player a vertical velocity (jump, spring launch, stomp bounce,
\* knockback, box bonk) leaves it not grounded.
GroundedAtRest ==
    [][/\ \A d \in last.deltas :
            (last'.op = "frame" /\ last'.d = d /\ last'.playing)
               => RestTicks(LoopEntry(Cur, d))
       /\ player'.grounded => player'.vy = 0]_vars

\* A frame has knocked a player that stood on the ground into the air: it
\* has lost its rings and rises, not grounded.
KnockedOffGround ==
    /\ last.op = "frame"
    /\ last.pre.player.grounded
    /\ last.pre.player.rings > 0
    /\ player.rings = 0
    /\ player.invuln > 0
    /\ player.vy < 0
    /\ ~player.grounded

====
